---- MODULE Spec2Model ----
(***************************************************************************)
(* A model of src/parse-sim.py: multi_sim's loop over the SIM files and    *)
(* parse_sim's header pre-scan, table allocation, single forward scan and  *)
(* post-processing.                                                        *)
(*                                                                         *)
(* A text line is a sequence of tokens, each with the number of blanks     *)
(* that precede it; every line ends with a newline and carries no other    *)
(* trailing blank.  line.split() is the token list; re.split on runs of    *)
(* two or more blanks cuts the line where a token has two or more blanks   *)
(* before it.  A regular expression of the source is an operator on that   *)
(* structure; what it needs to know of a token's characters is given by    *)
(* the token classes below, which list the tokens of the documents used.   *)
(***************************************************************************)
EXTENDS Integers, Sequences, FiniteSets, TLC

\* Python's None, and the value of a local variable that was never bound.
None == "<None>"
Unbound == "<unbound>"

\* A token with sp blanks before it.
T(sp, t) == [sp |-> sp, t |-> t]

\* A run of tokens one blank apart, the first with sp blanks before it.
RECURSIVE Words(_, _)
Words(sp, ws) ==
  IF ws = <<>> THEN <<>>
  ELSE <<T(sp, Head(ws))>> \o Words(1, Tail(ws))

(***************************************************************************)
(* Token classes: what the regular expressions read of a token.            *)
(***************************************************************************)
\* tokens whose first character is not a word character [A-Za-z0-9_]
NonWordStart == {"***", "======="}
\* tokens holding a character that is not a word character
NonWord == NonWordStart \cup
  {"REPORT-", "PS-F", "SS-A", "SS-B", "SV-A", "PV-A", "LV-D", "LS-C", "End-Use",
   "FILE-", "NATURAL-GAS", "N-WALL", "0.5", "12/31", "DAY/HR", "HW-BOILER", "ELEC-SCREW",
   "ONE-SPEED"}
\* tokens made of word characters and '+' only: [\w+]+
WordPlus(t) == t \notin NonWord
\* tokens made of word characters and '-' only: [\w-]+
WordDash(t) == t \notin {"***", "=======", "0.5", "12/31", "DAY/HR"}
\* tokens that start with a digit: \d+
DigitStart(t) == t \in {"0", "1", "2", "3", "4", "5", "9", "10", "100", "0.5", "12/31"}
\* tokens of exactly three word characters: \w{3}
ThreeWord(t) == t \in {"JAN", "FEB", "DEC", "MAX", "XYZ", "EM1", "FM1", "SM1", "100", "KWH",
                       "ALL", "FAN", "NET", "Apt", "PSZ", "AHU", "for", "PCT", "EQ1", "EQ2"}
\* the first two characters of a token that starts with [NE][LA]
NELA == [t \in {"ELECTRICITY", "NATURAL-GAS", "ELEC"} |->
          CASE t = "ELECTRICITY" -> "EL"
            [] t = "NATURAL-GAS" -> "NA"
            [] t = "ELEC" -> "EL"]
\* tokens that start with one of M, B, T, U
StartsMBTU(t) ==
  t \in {"MBTU", "TOTAL", "THERM", "MAX", "METERS", "UNMET", "BEPS", "BY", "USER"}
\* tokens that start with TOTAL
StartsTOTAL(t) == t \in {"TOTAL"}
\* tokens that start with P or H
StartsPH(t) ==
  t \in {"HOURS", "PEAK", "PCT", "PUMPS", "PUMP1", "PSZ", "PS-F", "PV-A", "Parameters"}
\* tokens that start with FILE
StartsFILE(t) == t \in {"FILE", "FILE-"}
\* tokens that start with ***
StartsStars(t) == t \in {"***"}
\* tokens pd.to_numeric parses
Numeric(t) == t \in {"0", "1", "2", "3", "4", "5", "9", "10", "100", "0.5"}
\* tokens that contain HW
ContainsHW(t) == t \in {"HW-BOILER"}

WordStart(t) == t \notin NonWordStart
AllWord(t) == t \notin NonWord

(***************************************************************************)
(* Strings and lists.                                                      *)
(***************************************************************************)
RECURSIVE Blanks(_)
Blanks(n) == IF n = 0 THEN "" ELSE " " \o Blanks(n - 1)

\* l_list = line.split()
Split(line) == [k \in 1..Len(line) |-> line[k].t]

\* the text of tokens a..b of a line, blanks between them kept
RECURSIVE RawText(_, _, _)
RawText(line, a, b) ==
  IF a > b THEN ""
  ELSE IF a = b THEN line[a].t
  ELSE line[a].t \o Blanks(line[a + 1].sp) \o RawText(line, a + 1, b)

\* Python's s[a:] and s[-n:] on a list (1-based here)
From(s, a) == IF a > Len(s) THEN <<>> ELSE SubSeq(s, a, Len(s))
LastN(s, n) == IF Len(s) <= n THEN s ELSE SubSeq(s, Len(s) - n + 1, Len(s))

\* the index of the first token after position a that has two or more blanks
\* before it, or Len(line) + 1
RECURSIVE NextWide(_, _)
NextWide(line, a) ==
  IF a >= Len(line) THEN Len(line) + 1
  ELSE IF line[a + 1].sp >= 2 THEN a + 1
  ELSE NextWide(line, a + 1)

\* re.split('\s{2,}', line.strip()), from token a on
RECURSIVE FieldsFrom(_, _)
FieldsFrom(line, a) ==
  IF a > Len(line) THEN <<>>
  ELSE LET b == NextWide(line, a)
       IN  <<RawText(line, a, b - 1)>> \o FieldsFrom(line, b)

SplitStripped(line) == IF line = <<>> THEN <<"">> ELSE FieldsFrom(line, 1)

\* re.split(r'\s{2,}', line) on the raw line: blanks at the start of the line
\* give an empty first field (two or more) or stay in the first field (one),
\* and the newline stays on the last field
SplitRaw(line) ==
  IF line = <<>> THEN <<"\n">>
  ELSE LET f == FieldsFrom(line, 1)
           g == [f EXCEPT ![Len(f)] = @ \o "\n"]
       IN  IF line[1].sp >= 2 THEN <<"">> \o g
           ELSE IF line[1].sp = 1 THEN [g EXCEPT ![1] = " " \o @]
           ELSE g

(***************************************************************************)
(* The regular expressions of parse_sim.                                   *)
(***************************************************************************)
\* the words of a header pattern before \s+((.*?))\s+WEATHER FILE
sva_header_pattern == <<"REPORT-", "SV-A", "System", "Design", "Parameters", "for">>
ps_f_header_pattern == <<"REPORT-", "PS-F", "Energy", "End-Use", "Summary", "for">>
ss_a_header_pattern == <<"REPORT-", "SS-A", "System", "Loads", "Summary", "for">>
ss_b_header_pattern == <<"REPORT-", "SS-B", "System", "Loads", "Summary", "for">>

\* the line starts with the words of pre, one blank apart
StartsWith(line, pre) ==
  /\ Len(line) >= Len(pre)
  /\ line[1].sp = 0
  /\ \A k \in 1..Len(pre) : line[k].t = pre[k] /\ (k > 1 => line[k].sp = 1)

\* the places j where "WEATHER FILE" starts, after the words of pre
WeatherAt(line, pre) ==
  {j \in (Len(pre) + 1)..(Len(line) - 1) :
     line[j].t = "WEATHER" /\ line[j + 1].sp = 1 /\ StartsFILE(line[j + 1].t)}

Min(S) == CHOOSE x \in S : \A y \in S : x <= y

\* re.match(pattern, line): whether it matches, and group(1)
HeaderMatches(line, pre) == StartsWith(line, pre) /\ WeatherAt(line, pre) # {}
HeaderGroup(line, pre) == RawText(line, Len(pre) + 1, Min(WeatherAt(line, pre)) - 1)

\* the header line of report code with entity name (as the simulation writes it)
Header(pre, name) ==
  Words(0, pre) \o (IF name = <<>> THEN <<>> ELSE Words(3, name))
    \o <<T(5, "WEATHER"), T(1, "FILE-")>>


\* meter_pattern '^(\w*?)\s{1,}?[NE][LA]': a word at the start of the line and
\* then a token that starts with [NE][LA], or an indented first token that does
MeterWordFirst(line) ==
  /\ Len(line) >= 2
  /\ line[1].sp = 0
  /\ AllWord(line[1].t)
  /\ line[2].t \in DOMAIN NELA
MeterIndented(line) ==
  /\ Len(line) >= 1
  /\ line[1].sp >= 1
  /\ line[1].t \in DOMAIN NELA
MeterMatches(line) == MeterWordFirst(line) \/ MeterIndented(line)
\* m.group().split()[0]
MeterGroup(line) == IF MeterWordFirst(line) THEN line[1].t ELSE NELA[line[1].t]

\* '^\s{4}[MBTU]', summ_pattern '^\s{19}TOTAL', unmet_pattern '^\s{19}[PH]'
CompMatches(line) == Len(line) >= 1 /\ line[1].sp = 4 /\ StartsMBTU(line[1].t)
SummMatches(line) == Len(line) >= 1 /\ line[1].sp = 19 /\ StartsTOTAL(line[1].t)
UnmetMatches(line) == Len(line) >= 1 /\ line[1].sp = 19 /\ StartsPH(line[1].t)

\* surface_pattern, with re.search: the tokens where an alternative matches
SurfaceAlt1(line) ==
  /\ Len(line) >= 2
  /\ line[1].sp = 0
  /\ WordDash(line[1].t)
  /\ line[2].sp \in 15..21
  /\ DigitStart(line[2].t)
SurfaceAlt2(line, k) ==
  /\ k < Len(line)
  /\ line[k].sp >= 4
  /\ WordPlus(line[k].t)
  /\ DigitStart(line[k + 1].t)
SurfaceAlt3(line, k) ==
  /\ k < Len(line)
  /\ line[k].t = "ALL"
  /\ line[k + 1].t = "WALLS"
  /\ line[k + 1].sp = 1
SurfaceAt(line) ==
  {k \in 1..Len(line) :
     \/ k = 1 /\ SurfaceAlt1(line)
     \/ SurfaceAlt2(line, k)
     \/ SurfaceAlt3(line, k)}
SurfaceMatches(line) == SurfaceAt(line) # {}
\* m.group() of the leftmost match
SurfaceGroup(line) ==
  LET k == Min(SurfaceAt(line))
  IN  IF SurfaceAlt3(line, k) /\ ~SurfaceAlt2(line, k) /\ ~(k = 1 /\ SurfaceAlt1(line))
      THEN "ALL WALLS"
      ELSE line[k].t

\* month_pattern '^\w{3}(?=\n)'
MonthMatches(line) == Len(line) = 1 /\ line[1].sp = 0 /\ ThreeWord(line[1].t)

\* plant_equip_pattern '\*\*\* (.*?) \*\*\*' with re.match
StarsAt(line) ==
  {j \in 2..Len(line) : StartsStars(line[j].t) /\ (j > 2 \/ line[2].sp >= 2)}
PlantEquipMatches(line) ==
  /\ Len(line) >= 2
  /\ line[1].sp = 0
  /\ line[1].t = "***"
  /\ StarsAt(line) # {}
PlantEquipGroup(line) ==
  LET j == Min(StarsAt(line))
  IN  IF j = 2 THEN Blanks(line[2].sp - 2)
      ELSE Blanks(line[2].sp - 1) \o RawText(line, 2, j - 1) \o Blanks(line[j].sp - 1)

\* '^\w' and '^\s{2}\w'
StartsWord(line) == Len(line) >= 1 /\ line[1].sp = 0 /\ WordStart(line[1].t)
StartsTwoBlanksWord(line) == Len(line) >= 1 /\ line[1].sp = 2 /\ WordStart(line[1].t)
\* "REPORT-" in line
HasReportMarker(line) == \E k \in 1..Len(line) : line[k].t = "REPORT-"
\* '^(.*?)\s{2,}' with re.match, and its group(1)
WideGapMatches(line) == NextWide(line, 1) <= Len(line) \/ (Len(line) >= 1 /\ line[1].sp >= 2)
WideGapGroup(line) ==
  IF line[1].sp >= 2 THEN ""
  ELSE Blanks(line[1].sp) \o RawText(line, 1, NextWide(line, 1) - 1)

(***************************************************************************)
(* Tables.  A DataFrame that grows by .loc is a function from the row      *)
(* label to the row, a list of values; its columns are fixed when it is    *)
(* created.                                                                *)
(***************************************************************************)
EmptyRows == [k \in {} |-> <<>>]
Range(s) == {s[k] : k \in 1..Len(s)}

loop_info_cols ==
  <<"Heating Cap. (mmBTU/hr)", "Cooling Cap. (mmBTU/hr)", "Loop Flow (GPM)",
    "Total Head (ft)", "Supply UA (BTU/h.F)", "Supply Loss DT (F)",
    "Return UA (BTU/h.F)", "Return Loss DT (F)", "Loop Volume (gal)",
    "Fluid Heat Cap. (BTU/lb.F)">>
pump_info_cols ==
  <<"Attached to", "Flow (GPM)", "Head (ft)", "Head Setpoint (ft)", "Capacity Control",
    "Power (kW)", "Mech. Eff", "Motor Eff">>
primary_info_cols ==
  <<"Equipment Type", "Attached to", "Capacity (mmBTU/hr)", "Flow (GPM)", "EIR", "HIR",
    "Aux. (kW)">>
ct_info_cols ==
  <<"Equipment Type", "Attached to", "Cap. (mmBTU/hr)", "Flow (GPM)", "Nb of Cells",
    "Fan Power per Cell (kW)", "Spray Power per Cell (kW)", "Aux. (kW)">>
dhw_info_cols ==
  <<"Equipment Type", "Attached to", "Cap. (mmBTU/hr)", "Flow (GPM)", "EIR", "HIR",
    "Auxiliary (kW)", "Tank (Gal)", "Tank UA (BTU/h.ft)">>

\* the columns of each PV-A table
pv_a_cols ==
  [k \in {"CIRCULATION LOOPS", "PUMPS", "PRIMARY EQUIPMENT", "COOLING TOWERS", "DW-HEATERS"} |->
     CASE k = "CIRCULATION LOOPS" -> loop_info_cols
       [] k = "PUMPS" -> pump_info_cols
       [] k = "PRIMARY EQUIPMENT" -> primary_info_cols
       [] k = "COOLING TOWERS" -> ct_info_cols
       [] k = "DW-HEATERS" -> dhw_info_cols]
create_pv_a_dict == [k \in DOMAIN pv_a_cols |-> EmptyRows]

system_info_cols ==
  <<"System Type", "Altitude Factor", "Floor Area (sqft)", "Max People",
    "Outside Air Ratio", "Cooling Capacity (kBTU/hr)", "Sensible (SHR)",
    "Heating Capacity (kBTU/hr)", "Cooling EIR (BTU/BTU)", "Heating EIR (BTU/BTU)",
    "Heat Pump Supplemental Heat (kBTU/hr)">>
fan_info_cols ==
  <<"Capacity (CFM)", "Diversity Factor (FRAC)", "Power Demand (kW)", "Fan deltaT (F)",
    "Static Pressure (in w.c.)", "Total efficiency", "Mechanical Efficiency",
    "Fan Placement", "Fan Control", "Max Fan Ratio (Frac)", "Min Fan Ratio (Frac)">>
zone_info_cols ==
  <<"Supply Flow (CFM)", "Exhaust Flow (CFM)", "Fan (kW)", "Minimum Flow (Frac)",
    "Outside Air Flow (CFM)", "Cooling Capacity (kBTU/hr)", "Sensible (FRAC)",
    "Extract Rate (kBTU/hr)", "Heating Capacity (kBTU/hr)", "Addition Rate (kBTU/hr)",
    "Zone Mult">>
sv_a_cols ==
  [k \in {"Systems", "Fans", "Zones"} |->
     CASE k = "Systems" -> system_info_cols
       [] k = "Fans" -> fan_info_cols
       [] k = "Zones" -> zone_info_cols]
create_sv_a_dict == [k \in DOMAIN sv_a_cols |-> EmptyRows]

component_info_cols ==
  <<"Lights", "Task Lights", "Misc Equipment", "Space Heating", "Space Cooling",
    "Heat Reject", "Pumps/Aux", "Vent Fans", "Refrig Display", "Ht Pump Supplem", "DHW",
    "Ext Usage", "Total">>
summary_info_cols ==
  <<"Total [MBTU]", "Energy per GFA [kBTU/sqft]", "Energy per Net Area [kBTU/sqft]">>
unmet_info_cols ==
  <<"% of Hours Outside Throttling Range", "% of Hours Plant Load Unmet",
    "Hours Cooling Unmet", "Hours Heating Unmet">>
beps_cols ==
  [k \in {"BUILDING COMPONENTS", "ENERGY SUMMARY", "UNMET INFO"} |->
     CASE k = "BUILDING COMPONENTS" -> <<"Energy Type">> \o component_info_cols
       [] k = "ENERGY SUMMARY" -> summary_info_cols
       [] k = "UNMET INFO" -> unmet_info_cols]
create_beps_dict == [k \in DOMAIN beps_cols |-> EmptyRows]

avg_u_cols ==
  <<"Avg Window U-value", "Avg Walls U-Value", "Avg Window+Walls U-Value",
    "Window Area (sqft)", "Wall Area (sqft)", "Win+Wall Area (sqft)">>
create_lv_d_dict == [k \in {"Avg_U"} |-> EmptyRows]

Months == <<"JAN", "FEB", "MAR", "APR", "MAY", "JUN", "JUL", "AUG", "SEP", "OCT", "NOV", "DEC">>

\* A PS-F table: its index is the product of the months and the measure labels
\* meas, then the labels extra that .loc added; rows holds the rows written, by
\* position in the index (the others are NaN).
ps_f_measures == <<"KWH", "Max KW", "Day/Hour", "Peak End Use", "Peak Pct">>
new_index_measures == <<"Therm", "Max Therm/Hr", "Day/Hour", "Peak End Use", "Peak Pct">>
create_ps_f_dict(list_of_meters) ==
  [m \in Range(list_of_meters) |-> [meas |-> ps_f_measures, extra |-> <<>>, rows |-> EmptyRows]]

\* the index of a PS-F table, as the list of its (month, measure) labels
PsfIndex(df) ==
  [p \in 1..(Len(Months) * Len(df.meas)) |->
     <<Months[((p - 1) \div Len(df.meas)) + 1], df.meas[((p - 1) % Len(df.meas)) + 1]>>]
    \o df.extra

ss_a_cols ==
  <<"Cooling Energy (MBTU)", "Day", "Hour", "Dry-bulb Temp", "Wet-bulb Temp",
    "Max Cooling Load (KBtu/hr)", "Heating Energy (MBTU)", "Day", "Hour",
    "Dry-bulb Temp", "Wet-bulb Temp", "Max Heating Load (KBtu/hr)",
    "Electrical Energy (KWH)", "Max Elec Load (KW)">>
ss_b_cols ==
  <<"Cooling by Zone Coils or Nat Ventil (MBTU)",
    "Max Cooling by Zone Coils or Nat Ventil (KBtu/Hr)",
    "Heating by Zone Coils or Nat Ventil (MBTU)",
    "Max Heating by Zone Coils or Nat Ventil (KBtu/Hr)",
    "Baseboard Heating Energy (MBTU)", "Max Baseboard Heating Energy (KBtu/Hr)",
    "Preheat Coil Energy or Elec For Furn Fan (MBTU)",
    "Max Preheat Coil Energy or Elec for Furn Fan (KBtu/Hr)">>
\* ind_list of create_ss_a_dict and create_ss_b_dict: the rows allocated (NaN)
ind_list == Months \o <<"TOTAL", "MAX">>
\* An SS-A or SS-B table holds the rows written; the labels of ind_list exist
\* from the start.
create_ss_a_dict(list_of_sys) == [m \in Range(list_of_sys) |-> EmptyRows]
create_ss_b_dict(list_of_sys) == [m \in Range(list_of_sys) |-> EmptyRows]

(***************************************************************************)
(* find_in_header: the names in the header lines of one report, each once, *)
(* in the order they first appear.                                         *)
(***************************************************************************)
\* FindStep without the test of line 496: every captured name is appended
FindStepDup(all_finds, line, pattern, report) ==
  LET l_list == Split(line)
  IN  IF Len(l_list) > 1 /\ l_list[1] = "REPORT-" /\ l_list[2] = report
         /\ HeaderMatches(line, pattern)
      THEN Append(all_finds, HeaderGroup(line, pattern))
      ELSE all_finds
\* one turn of the loop over f_list
FindStep(all_finds, line, pattern, report) ==
  LET l_list == Split(line)
  IN  IF Len(l_list) > 1 /\ l_list[1] = "REPORT-" /\ l_list[2] = report
         /\ HeaderMatches(line, pattern)
         /\ HeaderGroup(line, pattern) \notin Range(all_finds)
      THEN Append(all_finds, HeaderGroup(line, pattern))
      ELSE all_finds

RECURSIVE FindUpTo(_, _, _, _)
FindUpTo(lines, n, pattern, report) ==
  IF n = 0 THEN <<>>
  ELSE FindStep(FindUpTo(lines, n - 1, pattern, report), lines[n], pattern, report)

find_in_header(lines, pattern, report) == FindUpTo(lines, Len(lines), pattern, report)

(***************************************************************************)
(* df.loc[key] = row.  A row of the table's width is stored; a row of any  *)
(* other length raises ValueError, but for a list of one value set on a    *)
(* label that exists, which pandas either broadcasts over the row or       *)
(* refuses, with the indexing path it takes (lib).                         *)
(***************************************************************************)
\* LocFits of a table that takes a row of any length
LocFitsAnyLength(rows, exists, row, cols, lib) == TRUE
\* whether .loc takes the row
LocFits(rows, exists, row, cols, lib) ==
  \/ Len(row) = Len(cols)
  \/ exists /\ Len(row) = 1 /\ lib
LocRow(row, cols) ==
  IF Len(row) = 1 /\ Len(cols) # 1 THEN [c \in 1..Len(cols) |-> row[1]] ELSE row

(***************************************************************************)
(* parse_sim's frame: its local variables and its tables.  exc is the      *)
(* exception that ended the scan ("" while none has), cont whether the     *)
(* line took the dispatcher's continue, handled the report handlers whose  *)
(* body ran on the line, writes the tables the line wrote a row to, and    *)
(* printed the lines reported on standard output.                          *)
(***************************************************************************)
NoExc == ""
Raise(s, e) == [s EXCEPT !.exc = e]
Ok(s) == s.exc = NoExc

\* the state parse_sim has built when the scan starts (lines 639-678)
NewFrame(lines) ==
  LET list_of_meters == find_in_header(lines, ps_f_header_pattern, "PS-F")
      list_of_sys == find_in_header(lines, ss_a_header_pattern, "SS-A")
  IN  [sv_a_dict |-> create_sv_a_dict,
       current_sv_a_section |-> None,
       system_name |-> None,
       beps_dict |-> create_beps_dict,
       unmet_info |-> <<>>,
       current_type |-> None,
       meter |-> Unbound,
       lv_d_dict |-> create_lv_d_dict,
       list_of_meters |-> list_of_meters,
       ps_f_dict |-> create_ps_f_dict(list_of_meters),
       current_meter |-> Unbound,
       current_month |-> Unbound,
       pv_a_dict |-> create_pv_a_dict,
       current_report |-> None,
       current_plant_equip |-> None,
       list_of_sys |-> list_of_sys,
       ss_a_dict |-> create_ss_a_dict(list_of_sys),
       ss_b_dict |-> create_ss_b_dict(list_of_sys),
       current_sys |-> Unbound,
       exc |-> NoExc,
       cont |-> FALSE,
       handled |-> {},
       writes |-> {},
       printed |-> {}]

\* the frame when no parse_sim call is active
NoFrame == NewFrame(<<>>)

(***************************************************************************)
(* The dispatcher (lines 682-717).                                         *)
(***************************************************************************)
\* current_report = l_list[1]
ReportOf(code) == code

\* IsHeader with len(l_list) > 2
IsHeaderThree(l_list) == Len(l_list) > 2 /\ l_list[1] = "REPORT-"
\* len(l_list) > 1 and l_list[0] == "REPORT-" (lines 683-684)
IsHeader(l_list) == Len(l_list) > 1 /\ l_list[1] = "REPORT-"

\* an SV-A header whose name is not captured: the line is printed (lines 692-694)
SvaNoName(s, n) == [s EXCEPT !.printed = @ \cup {n}]

\* the body of the header branch (lines 685-716): the report code and, for
\* the reports that carry one, the name
DispatchHeader(s, line, n) ==
  LET s1 == [s EXCEPT !.current_report = ReportOf(Split(line)[2])]
  IN  CASE s1.current_report = "SV-A" ->
             IF HeaderMatches(line, sva_header_pattern)
             THEN [s1 EXCEPT !.system_name = HeaderGroup(line, sva_header_pattern)]
             ELSE SvaNoName(s1, n)
        [] s1.current_report = "PS-F" ->
             IF HeaderMatches(line, ps_f_header_pattern)
             THEN [s1 EXCEPT !.current_meter = HeaderGroup(line, ps_f_header_pattern)]
             ELSE Raise(s1, "Exception")
        [] s1.current_report = "SS-A" ->
             IF HeaderMatches(line, ss_a_header_pattern)
             THEN [s1 EXCEPT !.current_sys = HeaderGroup(line, ss_a_header_pattern)]
             ELSE Raise(s1, "Exception")
        [] s1.current_report = "SS-B" ->
             IF HeaderMatches(line, ss_b_header_pattern)
             THEN [s1 EXCEPT !.current_sys = HeaderGroup(line, ss_b_header_pattern)]
             ELSE Raise(s1, "Exception")
        [] OTHER -> s1

\* Dispatch without the continue of line 717
DispatchNoContinue(s, line, n) ==
  IF IsHeader(Split(line)) THEN DispatchHeader(s, line, n) ELSE s
\* the header branch and its continue (line 717)
Dispatch(s, line, n) ==
  IF IsHeader(Split(line))
  THEN [DispatchHeader(s, line, n) EXCEPT !.cont = TRUE]
  ELSE s

\* Active without the comparison of current_report
ActiveAlways(s, report, l_list) == Ok(s) /\ ~s.cont /\ Len(l_list) > 0
\* whether the body of the handler of report runs on this line
Active(s, report, l_list) ==
  Ok(s) /\ ~s.cont /\ s.current_report = report /\ Len(l_list) > 0

\* a write into a table that grows by .loc: rows -> the new rows, or a raise
Write(s, dict, name, key, row, cols, lib) ==
  LET rows == s[dict][name]
  IN  IF LocFits(rows, key \in DOMAIN rows, row, cols, lib)
      THEN [s EXCEPT ![dict][name] = (key :> LocRow(row, cols)) @@ rows,
                     !.writes = @ \cup {<<dict, name>>}]
      ELSE Raise(s, "ValueError")

(***************************************************************************)
(* The BEPS handler (lines 720-751).                                       *)
(***************************************************************************)
BepsMeter(s, line) ==
  LET l_list == Split(line)
  IN  IF MeterMatches(line)
      THEN IF Len(l_list) < 2 THEN Raise(s, "IndexError")
           ELSE [s EXCEPT !.meter = MeterGroup(line), !.current_type = l_list[2]]
      ELSE s

\* BepsComponent without the reset of line 734
BepsComponentNoReset(s, line, lib) ==
  LET l_list == Split(line)
  IN  IF Ok(s) /\ s.current_type \in {"NATURAL-GAS", "ELECTRICITY"} /\ CompMatches(line)
      THEN LET comp_info == <<s.current_type>> \o From(l_list, 2)
           IN  Write(s, "beps_dict", "BUILDING COMPONENTS", s.meter, comp_info,
                     beps_cols["BUILDING COMPONENTS"], lib)
      ELSE s
\* lines 730-734
BepsComponent(s, line, lib) ==
  LET l_list == Split(line)
  IN  IF Ok(s) /\ s.current_type \in {"NATURAL-GAS", "ELECTRICITY"} /\ CompMatches(line)
      THEN LET comp_info == <<s.current_type>> \o From(l_list, 2)
               w == Write(s, "beps_dict", "BUILDING COMPONENTS", s.meter, comp_info,
                          beps_cols["BUILDING COMPONENTS"], lib)
           IN  IF Ok(w) THEN [w EXCEPT !.current_type = None] ELSE w
      ELSE s

BepsSummary(s, line, lib) ==
  IF Ok(s) /\ SummMatches(line)
  THEN LET l0 == Split(line)
           \* l_list[0:3] = [' '.join(l_list[0:3])]
           n == IF Len(l0) < 3 THEN Len(l0) ELSE 3
           l_list == <<RawText(Words(0, SubSeq(l0, 1, n)), 1, n)>> \o From(l0, 4)
       IN  IF Len(l_list) < 7 THEN Raise(s, "IndexError")
           ELSE Write(s, "beps_dict", "ENERGY SUMMARY", l_list[1],
                      <<l_list[2], l_list[4], l_list[7]>>, beps_cols["ENERGY SUMMARY"], lib)
  ELSE s

\* the unmet-hours accumulator and its commit
UnmetCommit(s, lib) ==
  IF Len(s.unmet_info) = 4
  THEN Write(s, "beps_dict", "UNMET INFO", "Unmet", s.unmet_info, beps_cols["UNMET INFO"], lib)
  ELSE s
UnmetAppend(s, l_list) ==
  IF Len(s.unmet_info) < 4
  THEN [s EXCEPT !.unmet_info = Append(@, l_list[Len(l_list)])]
  ELSE s
\* BepsUnmet with the commit under the test of line 747
BepsUnmetNested(s, line, lib) ==
  IF Ok(s) /\ UnmetMatches(line) /\ Len(s.unmet_info) < 4
  THEN UnmetCommit(UnmetAppend(s, Split(line)), lib)
  ELSE s
\* lines 745-751
BepsUnmet(s, line, lib) ==
  IF Ok(s) /\ UnmetMatches(line)
  THEN UnmetCommit(UnmetAppend(s, Split(line)), lib)
  ELSE s

Beps(s, line, lib) ==
  IF Active(s, "BEPS", Split(line))
  THEN BepsUnmet(BepsSummary(BepsComponent(BepsMeter(
         [s EXCEPT !.handled = @ \cup {"BEPS"}], line), line, lib), line, lib), line, lib)
  ELSE s

(***************************************************************************)
(* The LV-D handler (lines 754-762).                                       *)
(***************************************************************************)
\* LvD with the first value of the ALL WALLS line dropped too: l_list[3:]
LvDDropsValue(s, line, lib) ==
  IF Active(s, "LV-D", Split(line))
  THEN LET l_list == Split(line)
           s1 == [s EXCEPT !.handled = @ \cup {"LV-D"}]
       IN  IF SurfaceMatches(line)
           THEN LET current_surface == SurfaceGroup(line)
                IN  IF current_surface = "ALL WALLS"
                    THEN Write(s1, "lv_d_dict", "Avg_U", current_surface, From(l_list, 4),
                               avg_u_cols, lib)
                    ELSE Write(s1, "lv_d_dict", "Avg_U", current_surface, From(l_list, 2),
                               avg_u_cols, lib)
           ELSE s1
  ELSE s
\* lines 754-762
LvD(s, line, lib) ==
  IF Active(s, "LV-D", Split(line))
  THEN LET l_list == Split(line)
           s1 == [s EXCEPT !.handled = @ \cup {"LV-D"}]
       IN  IF SurfaceMatches(line)
           THEN LET current_surface == SurfaceGroup(line)
                IN  IF current_surface = "ALL WALLS"
                    THEN Write(s1, "lv_d_dict", "Avg_U", current_surface, From(l_list, 3),
                               avg_u_cols, lib)
                    ELSE Write(s1, "lv_d_dict", "Avg_U", current_surface, From(l_list, 2),
                               avg_u_cols, lib)
           ELSE s1
  ELSE s

(***************************************************************************)
(* The PS-F handler (lines 765-793).                                       *)
(***************************************************************************)
measure_dict ==
  [k \in {"KWH", "MAX KW", "PEAK ENDUSE", "PEAK PCT", "MAX THERM/HR", "THERM"} |->
     CASE k = "KWH" -> "KWH"
       [] k = "MAX KW" -> "Max KW"
       [] k = "PEAK ENDUSE" -> "Peak End Use"
       [] k = "PEAK PCT" -> "Peak Pct"
       [] k = "MAX THERM/HR" -> "Max Therm/Hr"
       [] k = "THERM" -> "Therm"]

\* the positions of a label in the index of a PS-F table
PsfPositions(df, key) == {p \in 1..Len(PsfIndex(df)) : PsfIndex(df)[p] = key}

\* ps_f_dict[current_meter].loc[(current_month, measure), :] = row
PsfWrite(s, measure, row, lib) ==
  IF s.current_meter \notin DOMAIN s.ps_f_dict THEN Raise(s, "KeyError")
  ELSE IF s.current_month = Unbound THEN Raise(s, "UnboundLocalError")
  ELSE LET df == s.ps_f_dict[s.current_meter]
           key == <<s.current_month, measure>>
           at == PsfPositions(df, key)
       IN  IF ~LocFits(df.rows, at # {}, row, component_info_cols, lib)
           THEN Raise(s, "ValueError")
           ELSE IF at # {}
           THEN [s EXCEPT !.ps_f_dict[s.current_meter].rows =
                            [p \in at |-> LocRow(row, component_info_cols)] @@ @,
                          !.writes = @ \cup {<<"ps_f_dict", s.current_meter>>}]
           ELSE [s EXCEPT !.ps_f_dict[s.current_meter].extra = Append(@, key),
                          !.ps_f_dict[s.current_meter].rows =
                            ((Len(PsfIndex(df)) + 1) :> row) @@ @,
                          !.writes = @ \cup {<<"ps_f_dict", s.current_meter>>}]

\* the new index set on the table of every meter, as if the tables shared
\* one index
PsfRelabelAll(s) ==
  IF s.ps_f_dict[s.current_meter].extra # <<>> THEN Raise(s, "ValueError")
  ELSE [s EXCEPT !.ps_f_dict =
                   [m \in DOMAIN @ |-> [@[m] EXCEPT !.meas = new_index_measures]]]
\* df.index = pd.MultiIndex.from_product(new_index): the new index must be as
\* long as the table
PsfRelabel(s) ==
  IF s.ps_f_dict[s.current_meter].extra # <<>> THEN Raise(s, "ValueError")
  ELSE [s EXCEPT !.ps_f_dict[s.current_meter].meas = new_index_measures]

\* psf_l_list[-1].rstrip('\n')
DropNewline(line) ==
  LET f == SplitStripped(line)
  IN  IF line = <<>> THEN <<"">>
      ELSE IF line[1].sp >= 2 THEN <<"">> \o f
      ELSE IF line[1].sp = 1 THEN [f EXCEPT ![1] = " " \o @]
      ELSE f

\* the month kept from the first month line on
PsfMonthFirstOnly(s, line) ==
  IF MonthMatches(line) /\ s.current_month = Unbound
  THEN [s EXCEPT !.current_month = line[1].t]
  ELSE s
\* month_m = re.match(month_pattern, line); current_month = month_m.group()
PsfMonth(s, line) ==
  IF MonthMatches(line) THEN [s EXCEPT !.current_month = line[1].t] ELSE s

\* the last 13 of the tokens, no placeholder appended
PeakRowNoPad(l_list) == LastN(l_list, 13)
\* l_list.append(''), then l_list[-13:]
PeakRow(l_list) == LastN(Append(l_list, ""), 13)

PsF(s, line, lib) ==
  IF Active(s, "PS-F", Split(line))
  THEN LET l_list == Split(line)
           psf_l_list == SplitRaw(line)
           s0 == [s EXCEPT !.handled = @ \cup {"PS-F"}]
           s1 == PsfMonth(s0, line)
       IN  CASE psf_l_list[1] \in {"KWH", "MAX KW"} ->
                  PsfWrite(s1, measure_dict[psf_l_list[1]], LastN(l_list, 13), lib)
             [] psf_l_list[1] \in {"THERM", "MAX THERM/HR"} ->
                  LET s2 == PsfRelabel(s1)
                  IN  IF Ok(s2)
                      THEN PsfWrite(s2, measure_dict[psf_l_list[1]], LastN(l_list, 13), lib)
                      ELSE s2
             [] psf_l_list[1] \in {"PEAK ENDUSE", "PEAK PCT"} ->
                  PsfWrite(s1, measure_dict[psf_l_list[1]], PeakRow(l_list), lib)
             [] psf_l_list[1] = "DAY/HR" ->
                  PsfWrite(s1, "Day/Hour", LastN(DropNewline(line), 13), lib)
             [] OTHER -> s1
  ELSE s

(***************************************************************************)
(* The SS-A and SS-B handlers (lines 796-818).                             *)
(***************************************************************************)
\* SsWrite on a dict that makes the table of a system it does not hold
SsWriteCreates(s, dict, label, row, cols, lib) ==
  LET rows == IF s.current_sys \in DOMAIN s[dict] THEN s[dict][s.current_sys] ELSE EmptyRows
  IN  IF LocFits(rows, label \in Range(ind_list), row, cols, lib)
      THEN [s EXCEPT ![dict] = (s.current_sys :> ((label :> LocRow(row, cols)) @@ rows)) @@ @,
                     !.writes = @ \cup {<<dict, s.current_sys>>}]
      ELSE Raise(s, "ValueError")
\* dict[current_sys].loc[label] = row, the label one of ind_list
SsWrite(s, dict, label, row, cols, lib) ==
  IF s.current_sys \notin DOMAIN s[dict] THEN Raise(s, "KeyError")
  ELSE IF LocFits(s[dict][s.current_sys], label \in Range(ind_list), row, cols, lib)
  THEN [s EXCEPT ![dict][s.current_sys] = (label :> LocRow(row, cols)) @@ @,
                 !.writes = @ \cup {<<dict, s.current_sys>>}]
  ELSE Raise(s, "ValueError")

Empties(n) == [k \in 1..n |-> ""]
\* the MAX row of SS-A with pads of 5, 5 and 0 before its three values
ss_a_max_list_5_5_0(l_list) ==
  Empties(5) \o <<l_list[2]>> \o Empties(5) \o <<l_list[3]>> \o <<l_list[4]>>
\* max_list = [''] * 5 + [l_list[1]] + [''] * 5 + [l_list[2]] + [''] + [l_list[3]]
ss_a_max_list(l_list) ==
  Empties(5) \o <<l_list[2]>> \o Empties(5) \o <<l_list[3]>> \o <<"">> \o <<l_list[4]>>

SsA(s, line, lib) ==
  IF Active(s, "SS-A", Split(line))
  THEN LET l_list == Split(line)
           s1 == [s EXCEPT !.handled = @ \cup {"SS-A"}]
       IN  CASE l_list[1] \in Range(Months) ->
                  SsWrite(s1, "ss_a_dict", l_list[1], From(l_list, 2), ss_a_cols, lib)
             [] l_list[1] = "TOTAL" ->
                  IF Len(l_list) < 4 THEN Raise(s1, "IndexError")
                  ELSE SsWrite(s1, "ss_a_dict", l_list[1],
                               <<l_list[2]>> \o Empties(5) \o <<l_list[3]>> \o Empties(5)
                                 \o <<l_list[4]>> \o <<"">>,
                               ss_a_cols, lib)
             [] l_list[1] = "MAX" ->
                  IF Len(l_list) < 4 THEN Raise(s1, "IndexError")
                  ELSE SsWrite(s1, "ss_a_dict", l_list[1], ss_a_max_list(l_list),
                               ss_a_cols, lib)
             [] OTHER -> s1
  ELSE s

SsB(s, line, lib) ==
  IF Active(s, "SS-B", Split(line))
  THEN LET l_list == Split(line)
           s1 == [s EXCEPT !.handled = @ \cup {"SS-B"}]
       IN  CASE l_list[1] \in Range(Months) ->
                  SsWrite(s1, "ss_b_dict", l_list[1], From(l_list, 2), ss_b_cols, lib)
             [] l_list[1] = "TOTAL" ->
                  IF Len(l_list) < 5 THEN Raise(s1, "IndexError")
                  ELSE SsWrite(s1, "ss_b_dict", l_list[1],
                               <<l_list[2], "", l_list[3], "", l_list[4], "", l_list[5], "">>,
                               ss_b_cols, lib)
             [] l_list[1] = "MAX" ->
                  IF Len(l_list) < 5 THEN Raise(s1, "IndexError")
                  ELSE SsWrite(s1, "ss_b_dict", l_list[1],
                               <<"", l_list[2], "", l_list[3], "", l_list[4], "", l_list[5]>>,
                               ss_b_cols, lib)
             [] OTHER -> s1
  ELSE s

(***************************************************************************)
(* The PV-A handler (lines 821-831): lines is f_list and n the place of    *)
(* the line in it.                                                         *)
(***************************************************************************)
\* pv_a_dict[current_plant_equip].loc[equip_name, :] = row
PvWrite(s, equip_name, row, lib) ==
  IF s.current_plant_equip \notin DOMAIN s.pv_a_dict THEN Raise(s, "KeyError")
  ELSE Write(s, "pv_a_dict", s.current_plant_equip, equip_name, row,
             pv_a_cols[s.current_plant_equip], lib)

\* PvA with the values taken from the line itself: f_list[i]
PvAOfTheLine(s, lines, n, lib) ==
  IF Ok(s) /\ ~s.cont /\ s.current_report = "PV-A"
  THEN LET line == lines[n]
           s0 == [s EXCEPT !.handled = @ \cup {"PV-A"}]
           s1 == IF PlantEquipMatches(line)
                 THEN [s0 EXCEPT !.current_plant_equip = PlantEquipGroup(line)]
                 ELSE s0
       IN  IF StartsWord(line) /\ ~HasReportMarker(line) /\ WideGapMatches(line)
           THEN PvWrite(s1, WideGapGroup(line), SplitStripped(lines[n]), lib)
           ELSE s1
  ELSE s
\* lines 821-831
PvA(s, lines, n, lib) ==
  IF Ok(s) /\ ~s.cont /\ s.current_report = "PV-A"
  THEN LET line == lines[n]
           s0 == [s EXCEPT !.handled = @ \cup {"PV-A"}]
           s1 == IF PlantEquipMatches(line)
                 THEN [s0 EXCEPT !.current_plant_equip = PlantEquipGroup(line)]
                 ELSE s0
       IN  IF StartsWord(line) /\ ~HasReportMarker(line) /\ WideGapMatches(line)
           THEN IF n + 1 > Len(lines) THEN Raise(s1, "IndexError")
                ELSE PvWrite(s1, WideGapGroup(line), SplitStripped(lines[n + 1]), lib)
           ELSE s1
  ELSE s

(***************************************************************************)
(* The SV-A handler (lines 834-860).  A row label that holds None is set   *)
(* or refused by pandas, with its version (lib).                           *)
(***************************************************************************)
SvWrite(s, name, key, row, lib) ==
  IF s.system_name = None /\ ~lib THEN Raise(s, "KeyError")
  ELSE Write(s, "sv_a_dict", name, key, row, sv_a_cols[name], lib)

SvSystem(s, line, lib) ==
  IF Ok(s) /\ s.current_sv_a_section = "SYSTEM" /\ StartsWord(line)
  THEN SvWrite(s, "Systems", s.system_name, Split(line), lib)
  ELSE s

\* the join taken one place to the right: l_list[10:12]
FanJoinNext(l_list) ==
  IF Len(From(l_list, 2)) > 11
  THEN SubSeq(l_list, 1, 10) \o <<l_list[11] \o l_list[12]>> \o From(l_list, 13)
  ELSE l_list
\* l_list[9:11] = [''.join(l_list[9:11])]
FanJoin(l_list) ==
  IF Len(From(l_list, 2)) > 11
  THEN SubSeq(l_list, 1, 9) \o <<l_list[10] \o l_list[11]>> \o From(l_list, 12)
  ELSE l_list

SvFan(s, line, lib) ==
  IF Ok(s) /\ s.current_sv_a_section = "FAN" /\ StartsTwoBlanksWord(line)
  THEN LET l_list == FanJoin(Split(line))
       IN  SvWrite(s, "Fans", <<s.system_name, l_list[1]>>, From(l_list, 2), lib)
  ELSE s

\* the ZONE write with no try around it
SvZoneUncaught(s, line, n, lib) ==
  IF Ok(s) /\ s.current_sv_a_section = "ZONE" /\ StartsWord(line)
  THEN LET l_list == SplitStripped(line)
       IN  SvWrite(s, "Zones", <<s.system_name, l_list[1]>>, From(l_list, 2), lib)
  ELSE s
\* the try/except around the ZONE write
SvZone(s, line, n, lib) ==
  IF Ok(s) /\ s.current_sv_a_section = "ZONE" /\ StartsWord(line)
  THEN LET l_list == SplitStripped(line)
           w == SvWrite(s, "Zones", <<s.system_name, l_list[1]>>, From(l_list, 2), lib)
       IN  IF Ok(w) THEN w ELSE [s EXCEPT !.printed = @ \cup {n}]
  ELSE s

\* SvA taking the keyword of a line of any report
SvAOfAnyReport(s, line, n, lib) ==
  IF Active(s, "SV-A", Split(line))
  THEN LET l_list == Split(line)
           s0 == [s EXCEPT !.handled = @ \cup {"SV-A"}]
           s1 == IF l_list[1] \in {"SYSTEM", "FAN", "ZONE"}
                 THEN [s0 EXCEPT !.current_sv_a_section = l_list[1]]
                 ELSE s0
       IN  SvZone(SvFan(SvSystem(s1, line, lib), line, lib), line, n, lib)
  ELSE IF Ok(s) /\ ~s.cont /\ Len(line) > 0 /\ line[1].t \in {"SYSTEM", "FAN", "ZONE"}
  THEN [s EXCEPT !.current_sv_a_section = line[1].t]
  ELSE s
\* lines 834-860
SvA(s, line, n, lib) ==
  IF Active(s, "SV-A", Split(line))
  THEN LET l_list == Split(line)
           s0 == [s EXCEPT !.handled = @ \cup {"SV-A"}]
           s1 == IF l_list[1] \in {"SYSTEM", "FAN", "ZONE"}
                 THEN [s0 EXCEPT !.current_sv_a_section = l_list[1]]
                 ELSE s0
       IN  SvZone(SvFan(SvSystem(s1, line, lib), line, lib), line, n, lib)
  ELSE s

(***************************************************************************)
(* One turn of the scan loop on line n of lines (lines 681-860).           *)
(***************************************************************************)
ScanStep(s, lines, n, lib) ==
  LET line == lines[n]
      s0 == [s EXCEPT !.cont = FALSE, !.handled = {}, !.writes = {}]
      d == Dispatch(s0, line, n)
  IN  SvA(PvA(SsB(SsA(PsF(LvD(Beps(d, line, lib), line, lib), line, lib), line, lib),
          line, lib), lines, n, lib), line, n, lib)

(***************************************************************************)
(* Post-processing (lines 862-874): pd.to_numeric raises on a value that   *)
(* is no number unless errors='ignore' is given; each post_process_*       *)
(* writes its CSV file last.                                               *)
(***************************************************************************)
\* column.apply(pd.to_numeric) succeeds on the columns cs of every row
AllNumeric(rows, cs) == \A k \in DOMAIN rows : \A c \in cs : Numeric(rows[k][c])

\* the columns of cols but those named in not_num
NumCols(cols, not_num) == {c \in 1..Len(cols) : cols[c] \notin not_num}

post_process_sv_a_raises(s) ==
  \/ ~AllNumeric(s.sv_a_dict["Systems"], 2..Len(system_info_cols))
  \/ ~AllNumeric(s.sv_a_dict["Fans"], NumCols(fan_info_cols, {"Fan Placement", "Fan Control"}))
  \/ ~AllNumeric(s.sv_a_dict["Zones"], 1..Len(zone_info_cols))

post_process_pv_a_raises(s) ==
  \/ ~AllNumeric(s.pv_a_dict["CIRCULATION LOOPS"], 1..Len(loop_info_cols))
  \/ ~AllNumeric(s.pv_a_dict["PUMPS"],
                 NumCols(pump_info_cols, {"Attached to", "Capacity Control"}))
  \/ ~AllNumeric(s.pv_a_dict["COOLING TOWERS"],
                 NumCols(ct_info_cols, {"Equipment Type", "Attached to"}))
  \/ ~AllNumeric(s.pv_a_dict["PRIMARY EQUIPMENT"],
                 NumCols(primary_info_cols, {"Equipment Type", "Attached to"}))
  \/ ~AllNumeric(s.pv_a_dict["DW-HEATERS"],
                 NumCols(dhw_info_cols, {"Equipment Type", "Attached to"}))

\* Numbers after coercion: n / d, with d = 0 for what a float division by
\* zero gives (inf for n = 1, nan for n = 0).  No value of the tables is
\* negative, and the rounding of floats is left out.
RECURSIVE GCD(_, _)
GCD(a, b) == IF b = 0 THEN a ELSE GCD(b, a % b)
Norm(n, d) ==
  IF d = 0 THEN [n |-> IF n = 0 THEN 0 ELSE 1, d |-> 0]
  ELSE [n |-> n \div GCD(n, d), d |-> d \div GCD(n, d)]
Whole(n) == [n |-> n, d |-> 1]
Quot(a, b) == Norm(a.n * b.d, a.d * b.n)
Prod(a, b) == Norm(a.n * b.n, a.d * b.d)
\* pd.to_numeric on a token it parses
to_numeric(t) ==
  CASE t = "0" -> Whole(0) [] t = "1" -> Whole(1) [] t = "2" -> Whole(2)
    [] t = "3" -> Whole(3) [] t = "4" -> Whole(4) [] t = "5" -> Whole(5)
    [] t = "9" -> Whole(9) [] t = "10" -> Whole(10) [] t = "100" -> Whole(100)
    [] t = "0.5" -> Norm(1, 2)

\* df[num_cols] = df[num_cols].apply(pd.to_numeric), on the columns cs
Coerce(rows, cs) ==
  [k \in DOMAIN rows |->
     [c \in 1..Len(rows[k]) |-> IF c \in cs THEN to_numeric(rows[k][c]) ELSE rows[k][c]]]
\* the value of the row in the column named
Cell(row, cols, name) == row[CHOOSE c \in 1..Len(cols) : cols[c] = name]
\* a frame: its columns and its rows by label
Frame(cols, rows) == [cols |-> cols, rows |-> rows]

\* every row of the primary equipment is a boiler
IsBoilerAlways(row) == TRUE
\* df_primary['Equipment Type'].str.contains('HW')
IsBoiler(row) == ContainsHW(Cell(row, primary_info_cols, "Equipment Type"))

\* df_pumps['W/GPM'] without the factor 1000: kW per GPM
PumpWattsPerGPMInKW(row) ==
  Quot(Cell(row, pump_info_cols, "Power (kW)"), Cell(row, pump_info_cols, "Flow (GPM)"))
\* df_pumps['W/GPM'] = 1000 * df_pumps['Power (kW)'] / df_pumps['Flow (GPM)']
PumpWattsPerGPM(row) ==
  Quot(Prod(Whole(1000), Cell(row, pump_info_cols, "Power (kW)")),
       Cell(row, pump_info_cols, "Flow (GPM)"))

\* the dict post_process_pv_a returns when it does not raise (lines 146-206);
\* the coerced frame of the circulation loops is bound to a local name only
post_process_pv_a(pv_a_dict) ==
  LET df_pumps == Coerce(pv_a_dict["PUMPS"],
                         NumCols(pump_info_cols, {"Attached to", "Capacity Control"}))
      df_ct == Coerce(pv_a_dict["COOLING TOWERS"],
                      NumCols(ct_info_cols, {"Equipment Type", "Attached to"}))
      df_primary == Coerce(pv_a_dict["PRIMARY EQUIPMENT"],
                           NumCols(primary_info_cols, {"Equipment Type", "Attached to"}))
      df_dhw == Coerce(pv_a_dict["DW-HEATERS"],
                       NumCols(dhw_info_cols, {"Equipment Type", "Attached to"}))
      boilers == {k \in DOMAIN df_primary : IsBoiler(df_primary[k])}
      ThermalEff(row, cols) == Quot(Whole(1), Cell(row, cols, "HIR"))
      COP(row) == Quot(Whole(1), Cell(row, primary_info_cols, "EIR"))
      Tower(row) ==
        <<Quot(Prod(Prod(Whole(1000), Cell(row, ct_info_cols, "Fan Power per Cell (kW)")),
                    Cell(row, ct_info_cols, "Nb of Cells")),
               Cell(row, ct_info_cols, "Flow (GPM)")),
          Quot(Prod(Cell(row, ct_info_cols, "Flow (GPM)"), Whole(12)),
               Prod(Whole(1000), Cell(row, ct_info_cols, "Cap. (mmBTU/hr)")))>>
      Chiller(row) ==
        <<COP(row),
          Quot(Whole(12), Prod(COP(row), Norm(3412, 1000))),
          Quot(Prod(Cell(row, primary_info_cols, "Flow (GPM)"), Whole(12)),
               Prod(Whole(1000), Cell(row, primary_info_cols, "Capacity (mmBTU/hr)")))>>
  IN  [k \in {"CIRCULATION LOOPS", "PUMPS", "COOLING TOWERS", "DW-HEATERS", "BOILERS",
              "CHILLERS"} |->
         CASE k = "CIRCULATION LOOPS" -> Frame(loop_info_cols, pv_a_dict[k])
           [] k = "PUMPS" ->
                Frame(Append(pump_info_cols, "W/GPM"),
                      [e \in DOMAIN df_pumps |->
                         Append(df_pumps[e], PumpWattsPerGPM(df_pumps[e]))])
           [] k = "COOLING TOWERS" ->
                Frame(ct_info_cols \o <<"Fan W/GPM", "GPM/ton">>,
                      [e \in DOMAIN df_ct |-> df_ct[e] \o Tower(df_ct[e])])
           [] k = "DW-HEATERS" ->
                Frame(Append(dhw_info_cols, "Thermal Eff"),
                      [e \in DOMAIN df_dhw |->
                         Append(df_dhw[e], ThermalEff(df_dhw[e], dhw_info_cols))])
           [] k = "BOILERS" ->
                Frame(Append(primary_info_cols, "Thermal Eff"),
                      [e \in boilers |->
                         Append(df_primary[e], ThermalEff(df_primary[e], primary_info_cols))])
           [] k = "CHILLERS" ->
                Frame(primary_info_cols \o <<"COP", "kW/ton", "GPM/ton">>,
                      [e \in DOMAIN df_primary \ boilers |->
                         df_primary[e] \o Chiller(df_primary[e])])]

post_process_beps_raises(s) ==
  \/ ~AllNumeric(s.beps_dict["BUILDING COMPONENTS"],
                 NumCols(beps_cols["BUILDING COMPONENTS"], {"Energy Type"}))
  \/ ~AllNumeric(s.beps_dict["ENERGY SUMMARY"], 1..Len(summary_info_cols))
  \/ ~AllNumeric(s.beps_dict["UNMET INFO"], 1..Len(unmet_info_cols))
  \/ "Unmet" \notin DOMAIN s.beps_dict["UNMET INFO"]

\* line 584 alone: the coercion, without the WWR of lines 587-588
post_process_lv_d_coerces(s) ==
  ~AllNumeric(s.lv_d_dict["Avg_U"], 1..Len(avg_u_cols))
post_process_lv_d_raises(s) ==
  \/ ~AllNumeric(s.lv_d_dict["Avg_U"], 1..Len(avg_u_cols))
  \/ "ALL WALLS" \notin DOMAIN s.lv_d_dict["Avg_U"]

\* the post_process_* calls in the order parse_sim makes them, with whether
\* each raises; PS-F, SS-A and SS-B coerce with errors='ignore'
PostStages(s) ==
  <<[report |-> "SV-A", raises |-> post_process_sv_a_raises(s)],
    [report |-> "PV-A", raises |-> post_process_pv_a_raises(s)],
    [report |-> "BEPS", raises |-> post_process_beps_raises(s)],
    [report |-> "PS-F", raises |-> FALSE],
    [report |-> "SS-A", raises |-> FALSE],
    [report |-> "SS-B", raises |-> FALSE],
    [report |-> "LV-D", raises |-> post_process_lv_d_raises(s)]>>

\* the first stage that raises, or Len + 1
FirstRaise(stages) ==
  Min({k \in 1..Len(stages) : stages[k].raises} \cup {Len(stages) + 1})

\* what parse_sim returns (line 874): the dicts of the post_process_* calls.
\* The PV-A dict is the post-processed one; of the others the rows of the
\* scan are kept, their coercion and added columns are not modelled.
Returned(s) ==
  [sv_a_dict |-> s.sv_a_dict, pv_a_dict |-> post_process_pv_a(s.pv_a_dict),
   beps_dict |-> s.beps_dict,
   ps_f_dict |-> s.ps_f_dict, ss_a_dict |-> s.ss_a_dict, ss_b_dict |-> s.ss_b_dict,
   lv_d_dict |-> s.lv_d_dict]

(***************************************************************************)
(* The program: multi_sim (lines 603-629) calling parse_sim (632-874).     *)
(*   filelist   the SIM files found, each the list of its lines            *)
(*   proceed    the answer to the prompt                                   *)
(*   fileno     the place in filelist of the file being parsed             *)
(*   pc         "prompt", "files" (between two parse_sim calls), "scan"    *)
(*              (in parse_sim), "exit", or "raised" (an exception left     *)
(*              parse_sim and, uncaught, ended the program)                *)
(*   f_list, i  the lines of the file being parsed, and the scan's place   *)
(*   st         parse_sim's frame                                          *)
(*   returned   by place in filelist, what the parse_sim call of each file *)
(*              returned                                                   *)
(*   csv        the CSV files written, as <<place in filelist, report>>    *)
(***************************************************************************)
VARIABLES filelist, proceed, fileno, pc, f_list, i, st, returned, csv
vars == <<filelist, proceed, fileno, pc, f_list, i, st, returned, csv>>

current_report == st.current_report

InitWith(filelists) ==
  /\ filelist \in filelists
  /\ proceed = None
  /\ fileno = 0
  /\ pc = "prompt"
  /\ f_list = <<>>
  /\ i = 0
  /\ st = NoFrame
  /\ returned = EmptyRows
  /\ csv = {}

\* multi_sim's while loop: no file, or one answer to the prompt
Prompt ==
  /\ pc = "prompt"
  /\ IF Len(filelist) < 1
     THEN pc' = "exit" /\ UNCHANGED <<proceed, fileno>>
     ELSE \E answer \in {"Y", "n", "?"} :
            /\ proceed' = answer
            /\ pc' = IF answer \in {"Y", "y"} THEN "files"
                     ELSE IF answer \in {"N", "n"} THEN "exit"
                     ELSE "prompt"
            /\ fileno' = IF answer \in {"Y", "y"} THEN 1 ELSE fileno
  /\ UNCHANGED <<filelist, f_list, i, st, returned, csv>>

\* parse_sim called with the BEPS tables of the call before it, as if
\* beps_dict were a dict of the module
ParseSimBeginShared ==
  /\ pc = "files"
  /\ f_list' = filelist[fileno]
  /\ st' = [NewFrame(filelist[fileno]) EXCEPT
              !.beps_dict = IF fileno - 1 \in DOMAIN returned
                            THEN returned[fileno - 1].beps_dict ELSE @]
  /\ i' = 1
  /\ pc' = "scan"
  /\ UNCHANGED <<filelist, proceed, fileno, returned, csv>>
\* parse_sim is called on the next file: it reads the file, pre-scans the
\* headers and allocates the tables
ParseSimBegin ==
  /\ pc = "files"
  /\ f_list' = filelist[fileno]
  /\ st' = NewFrame(filelist[fileno])
  /\ i' = 1
  /\ pc' = "scan"
  /\ UNCHANGED <<filelist, proceed, fileno, returned, csv>>

\* what follows an exception that leaves parse_sim: multi_sim catches nothing
AfterRaise == "raised"

\* one line of the scan
ScanLine ==
  /\ pc = "scan"
  /\ i <= Len(f_list)
  /\ \E lib \in BOOLEAN :
       /\ st' = ScanStep(st, f_list, i, lib)
       /\ pc' = IF Ok(st') THEN "scan" ELSE AfterRaise
       /\ i' = IF Ok(st') THEN i + 1 ELSE i
  /\ UNCHANGED <<filelist, proceed, fileno, f_list, returned, csv>>

\* the end of the input: post-processing, and the return to multi_sim
PostProcess ==
  /\ pc = "scan"
  /\ i > Len(f_list)
  /\ LET stages == PostStages(st)
         k == FirstRaise(stages)
     IN  /\ csv' = csv \cup {<<fileno, stages[j].report>> : j \in 1..(k - 1)}
         /\ IF k <= Len(stages)
            THEN /\ st' = Raise(st, "post")
                 /\ pc' = AfterRaise
                 /\ UNCHANGED <<returned, fileno>>
            ELSE /\ returned' = (fileno :> Returned(st)) @@ returned
                 /\ st' = NoFrame
                 /\ pc' = IF fileno < Len(filelist) THEN "files" ELSE "exit"
                 /\ fileno' = IF fileno < Len(filelist) THEN fileno + 1 ELSE fileno
  /\ UNCHANGED <<filelist, proceed, f_list, i>>

Next == Prompt \/ ParseSimBegin \/ ScanLine \/ PostProcess

(***************************************************************************)
(* The documents checked: lines as the simulation writes them, and lines   *)
(* that are too short, too long or malformed.                              *)
(***************************************************************************)
\* n value tokens v, two blanks apart
Vals(n, v) == [k \in 1..n |-> T(2, v)]

hBEPS == Words(0, <<"REPORT-", "BEPS">>)
hLVD == Words(0, <<"REPORT-", "LV-D">>)
hPVA == Words(0, <<"REPORT-", "PV-A">>)
hLSC == Words(0, <<"REPORT-", "LS-C">>)
hPSF(name) == Header(ps_f_header_pattern, name)
hSSA(name) == Header(ss_a_header_pattern, name)
hSSB(name) == Header(ss_b_header_pattern, name)
hSVA(name) == Header(sva_header_pattern, name)
\* headers whose name the pattern does not capture
hPSFbad == Words(0, <<"REPORT-", "PS-F">>)
hSSAbad == Words(0, <<"REPORT-", "SS-A">>)
hSSBbad == Words(0, <<"REPORT-", "SS-B">>)
hSVAbad == Words(0, <<"REPORT-", "SV-A">>)
\* the marker alone, and an empty line
lone == Words(0, <<"REPORT-">>)
blank == <<>>

\* BEPS
meterE == <<T(0, "EM1"), T(2, "ELECTRICITY")>>
meterG == <<T(0, "FM1"), T(2, "NATURAL-GAS")>>
meterS == <<T(0, "SM1"), T(2, "STEAM")>>
meterI == <<T(1, "ELECTRICITY")>>
comp(n) == <<T(4, "MBTU")>> \o Vals(n, "1")
\* a meter line of a type that is neither of the two, and a component line
\* of thirteen values, no two neighbours alike
meterOther == <<T(0, "SM1"), T(2, "ELEC")>>
compMix ==
  <<T(4, "MBTU"), T(2, "1"), T(2, "2"), T(2, "3"), T(2, "4"), T(2, "9"), T(2, "10"),
    T(2, "100"), T(2, "0.5"), T(2, "1"), T(2, "2"), T(2, "3"), T(2, "4"), T(2, "9")>>
summ ==
  <<T(19, "TOTAL"), T(1, "SITE"), T(1, "ENERGY"), T(2, "100"), T(1, "MBTU"), T(2, "10"),
    T(1, "KBTU"), T(1, "GROSS"), T(2, "9"), T(1, "KBTU"), T(1, "NET")>>
summShort == <<T(19, "TOTAL"), T(1, "SITE"), T(1, "ENERGY"), T(2, "100")>>
unmet(v) == <<T(19, "HOURS"), T(1, "UNMET"), T(2, v)>>

\* LV-D
leaf(n) == <<T(0, "NORTH"), T(16, "0.5")>> \o Vals(n - 1, "1")
leaf4(n) == <<T(4, "N-WALL"), T(12, "0.5")>> \o Vals(n - 1, "1")
leafW(n) == <<T(4, "WEST"), T(12, "0.5")>> \o Vals(n - 1, "1")
allwalls(n) == <<T(4, "ALL"), T(1, "WALLS"), T(8, "0.5")>> \o Vals(n - 1, "2")
\* a leaf row and the aggregate row of six values, no two neighbours alike
leafMix ==
  <<T(0, "NORTH"), T(16, "0.5"), T(2, "1"), T(2, "2"), T(2, "3"), T(2, "4"), T(2, "9")>>
allwallsMix ==
  <<T(4, "ALL"), T(1, "WALLS"), T(8, "0.5"), T(2, "1"), T(2, "2"), T(2, "3"), T(2, "4"),
    T(2, "9")>>

\* PS-F
month(m) == <<T(0, m)>>
kwh(n) == <<T(0, "KWH")>> \o Vals(n, "1")
kwhTotal(n) == <<T(0, "KWH")>> \o Vals(n, "9")
maxkw(n) == <<T(0, "MAX"), T(1, "KW")>> \o Vals(n, "2")
therm(n) == <<T(0, "THERM")>> \o Vals(n, "3")
peak(n) == <<T(0, "PEAK"), T(1, "ENDUSE")>> \o Vals(n, "4")
\* a peak line of twelve values, no two neighbours alike
peakPct ==
  <<T(0, "PEAK"), T(1, "PCT"), T(2, "1"), T(2, "2"), T(2, "3"), T(2, "4"), T(2, "9"),
    T(2, "10"), T(2, "100"), T(2, "0.5"), T(2, "1"), T(2, "2"), T(2, "3"), T(2, "4")>>
dayhr(n) == <<T(0, "DAY/HR")>> \o [k \in 1..n |-> T(2, "12/31")]
delim == <<T(4, "=======")>>

\* SS-A and SS-B
ssMonth(m, n) == <<T(0, m)>> \o Vals(n, "1")
ssTotal(n) == <<T(0, "TOTAL")>> \o Vals(n, "2")
ssMax(n) == <<T(0, "MAX")>> \o Vals(n, "3")
\* a row of the label and values given
ssRow(label, vals) == <<T(0, label)>> \o [k \in 1..Len(vals) |-> T(2, vals[k])]

\* PV-A
class(name) == <<T(0, "***")>> \o Words(1, name) \o <<T(1, "***")>>
equip(name) == <<T(0, name), T(4, "LOOP1")>>
equipVals(n) == <<T(2, "LOOP1")>> \o Vals(n - 1, "1")
\* the values of a pump, of the flow and power given
pumpVals(flow, power) ==
  <<T(2, "LOOP1"), T(2, flow), T(2, "10"), T(2, "10"), T(2, "ONE-SPEED"), T(2, power),
    T(2, "0.5"), T(2, "0.5")>>
\* the values of a pump on a line that starts at the margin
pumpFlush ==
  <<T(0, "LOOP1"), T(2, "100"), T(2, "10"), T(2, "10"), T(2, "ONE-SPEED"), T(2, "5"),
    T(2, "0.5"), T(2, "0.5")>>
\* the values of a boiler or a chiller, of the type, EIR and HIR given
primaryVals(type, eir, hir) ==
  <<T(2, type), T(2, "LOOP1"), T(2, "4"), T(2, "100"), T(2, eir), T(2, hir), T(2, "0")>>

\* SV-A
keyword(sp, k) == <<T(sp, k)>>
sysrow(n) == <<T(0, "PSZ")>> \o Vals(n - 1, "1")
fanrow(n) == <<T(2, "SUPPLY")>> \o Vals(n, "1")
\* a fan row whose control strategy is spelled in two words
fanByUser ==
  <<T(2, "SUPPLY"), T(2, "1"), T(2, "2"), T(2, "3"), T(2, "4"), T(2, "9"), T(2, "10"),
    T(2, "100"), T(2, "DRAW"), T(2, "BY"), T(1, "USER"), T(2, "0.5"), T(2, "2")>>
zonerow(n) == <<T(0, "Apt"), T(1, "1"), T(1, "Zn")>> \o Vals(n, "1")

\* the sequences of at most n lines of the set S
SeqsUpTo(S, n) == UNION {[1..k -> S] : k \in 0..n}

\* documents of any lines: headers of every kind and a data line of each report
MaxLines == 3
AnyLines ==
  {hBEPS, hLSC, hLVD, hPVA, hPSF(<<"EM1">>), hPSF(<<"FM1">>), hPSFbad,
   hSSA(<<"SYS1">>), hSSAbad, hSSB(<<"SYS1">>), hSSB(<<"AHU", "2">>), hSSBbad,
   hSVA(<<"SYS1">>), hSVAbad,
   lone, unmet("1"), ssMonth("JAN", 8), equip("PUMP1"), keyword(0, "SYSTEM")}
AnyDocs == SeqsUpTo(AnyLines, MaxLines)

\* documents of one report: a lead-in, then rows of the report of every width
MaxRows == 2
SectionDocs ==
  LET Doc(lead, rows) == {lead \o d : d \in SeqsUpTo(rows, MaxRows)}
  IN  Doc(<<hBEPS, meterE>>,
          {comp(13), comp(12), comp(14), summ, summShort, meterI, meterS, meterG})
      \cup Doc(<<hLVD>>, {leaf(6), leaf4(6), leafW(6), leafW(5), allwalls(6), allwalls(7)})
      \cup Doc(<<hPSF(<<"EM1">>), month("JAN")>>,
               {kwh(13), kwh(14), kwh(5), maxkw(13), therm(13), peak(12), peak(13),
                dayhr(12), dayhr(13), month("XYZ")})
      \cup Doc(<<hSSA(<<"SYS1">>)>>,
               {ssMonth("JAN", 14), ssMonth("DEC", 1), ssMonth("FEB", 8), ssTotal(3),
                ssTotal(2), ssMax(3), ssMax(4)})
      \cup Doc(<<hSSA(<<"SYS1">>), hSSB(<<"SYS1">>)>>,
               {ssMonth("JAN", 8), ssMonth("DEC", 1), ssMonth("FEB", 14), ssTotal(4),
                ssTotal(3), ssMax(4), ssMax(5)})
      \cup Doc(<<hPVA, class(<<"PUMPS">>)>>,
               {equip("PUMP1"), equipVals(8), equipVals(7), class(<<"ELEC", "METERS">>),
                class(<<"CIRCULATION", "LOOPS">>), Vals(10, "1")})
      \cup Doc(<<hSVA(<<"SYS1">>), keyword(0, "SYSTEM")>>, {sysrow(11), sysrow(10)})
      \cup Doc(<<hSVA(<<"SYS1">>), keyword(1, "FAN")>>, {fanrow(11), fanrow(12), fanrow(13)})
      \cup Doc(<<hSVA(<<"SYS1">>), keyword(1, "ZONE")>>, {zonerow(11), zonerow(10)})

Init == InitWith({<<d>> : d \in AnyDocs \cup SectionDocs})
Spec == Init /\ [][Next]_vars

(***************************************************************************)
(* Properties.  A line is a section-header line when its first token is    *)
(* the marker and it has a second token, the report code.                  *)
(***************************************************************************)
SevenCodes == {"BEPS", "PV-A", "SV-A", "PS-F", "SS-A", "SS-B", "LV-D"}
IsHeaderLine(line) == Len(line) > 1 /\ line[1].t = "REPORT-"
CodeOf(line) == line[2].t

\* the place of the line the last ScanLine step scanned (0 before the first)
JustScanned == IF pc = AfterRaise /\ st.exc # "post" THEN i ELSE i - 1

\* the tables of a frame
Tables(s) ==
  <<s.sv_a_dict, s.pv_a_dict, s.beps_dict, s.ps_f_dict, s.ss_a_dict, s.ss_b_dict, s.lv_d_dict>>

\* the header lines of report in lines whose name the pattern captures
CapturedAt(lines, pattern, report) ==
  {k \in 1..Len(lines) :
     IsHeaderLine(lines[k]) /\ CodeOf(lines[k]) = report /\ HeaderMatches(lines[k], pattern)}
\* the first of them that carries name
FirstAt(lines, pattern, report, name) ==
  Min({k \in CapturedAt(lines, pattern, report) : HeaderGroup(lines[k], pattern) = name})
\* found holds each captured name once, in the order of first appearance
OnceInOrder(found, lines, pattern, report) ==
  LET names == {HeaderGroup(lines[k], pattern) : k \in CapturedAt(lines, pattern, report)}
  IN  /\ Range(found) = names
      /\ Len(found) = Cardinality(names)
      /\ \A a, b \in 1..Len(found) :
           a < b => FirstAt(lines, pattern, report, found[a])
                      < FirstAt(lines, pattern, report, found[b])

\* C1: for every document and report code, find_in_header returns each
\* distinct name captured from that code's header lines exactly once, in the
\* order of first appearance: N header lines naming M entities give M names.
C1_FindInHeaderOnceInOrder ==
  pc = "scan" =>
    /\ OnceInOrder(st.list_of_meters, f_list, ps_f_header_pattern, "PS-F")
    /\ OnceInOrder(st.list_of_sys, f_list, ss_a_header_pattern, "SS-A")
    /\ OnceInOrder(find_in_header(f_list, ss_b_header_pattern, "SS-B"), f_list,
                   ss_b_header_pattern, "SS-B")
    /\ OnceInOrder(find_in_header(f_list, sva_header_pattern, "SV-A"), f_list,
                   sva_header_pattern, "SV-A")
\* three PS-F header lines naming two meters give the two names
C1_Witness ==
  /\ pc = "scan"
  /\ f_list = <<hPSF(<<"EM1">>), hPSF(<<"FM1">>), hPSF(<<"EM1">>)>>
  /\ st.list_of_meters = <<"EM1", "FM1">>

\* the code of the last section-header line among lines[1..n], None if none
RECURSIVE LastHeaderCode(_, _)
LastHeaderCode(lines, n) ==
  IF n = 0 THEN None
  ELSE IF IsHeaderLine(lines[n]) THEN CodeOf(lines[n])
  ELSE LastHeaderCode(lines, n - 1)

\* C2: during the scan the current report code starts as NONE, changes only
\* on a section-header line, and at the end of the input is the code of the
\* last section-header line: after every scanned prefix it is the code of the
\* last header line of that prefix, so no data line changes it.
C2_ReportIsLastHeader ==
  pc \in {"scan", AfterRaise} => current_report = LastHeaderCode(f_list, JustScanned)
\* the input has ended after two headers and a data line
C2_Witness ==
  /\ pc = "scan"
  /\ f_list = <<hBEPS, hLVD, unmet("1")>>
  /\ i > Len(f_list)
  /\ current_report = "LV-D"

\* C3 as claimed: in every state of the scan the current report code is NONE
\* or one of the seven codes, whatever code a header line names.
C3_OnlySevenCodes == current_report \in SevenCodes \cup {None}
\* C3: the current report code is NONE or the code a scanned section-header
\* line names; under a code that is not one of the seven (NONE among them) no
\* handler runs on a line and no table is written.
C3_UnknownCodeIdle ==
  pc \in {"scan", AfterRaise} =>
    /\ current_report \in
         {None} \cup {CodeOf(f_list[k]) : k \in {j \in 1..JustScanned : IsHeaderLine(f_list[j])}}
    /\ current_report \notin SevenCodes => st.handled = {} /\ st.writes = {}
\* a data line has been scanned under the code LS-C
C3_Witness ==
  /\ pc = "scan"
  /\ f_list = <<hBEPS, hLSC, unmet("1")>>
  /\ i > Len(f_list)
  /\ current_report = "LS-C"
  /\ st.handled = {}

\* C4: every line is handled by at most one report handler, that of the
\* current report code, and a section-header line by none: scanning a header
\* line changes no table.
C4_OneHandlerPerLine ==
  [][(pc = "scan" /\ i <= Len(f_list)) =>
       /\ Cardinality(st'.handled) <= 1
       /\ st'.handled \subseteq {st'.current_report}
       /\ IsHeaderLine(f_list[i]) => st'.handled = {} /\ Tables(st') = Tables(st)]_vars
\* a BEPS line was handled by BEPS alone and the header after it by none
C4_Witness ==
  /\ pc = "scan"
  /\ f_list = <<hBEPS, unmet("1"), hLVD>>
  /\ i > Len(f_list)
  /\ st.handled = {}
  /\ current_report = "LV-D"

\* the report codes whose header lines carry a name, with their patterns
NamePattern ==
  [c \in {"SV-A", "PS-F", "SS-A", "SS-B"} |->
     CASE c = "SV-A" -> sva_header_pattern
       [] c = "PS-F" -> ps_f_header_pattern
       [] c = "SS-A" -> ss_a_header_pattern
       [] c = "SS-B" -> ss_b_header_pattern]
\* a header line of a name-bearing code whose name the pattern does not capture
NameNotCaptured(line) ==
  /\ IsHeaderLine(line)
  /\ CodeOf(line) \in DOMAIN NamePattern
  /\ ~HeaderMatches(line, NamePattern[CodeOf(line)])

\* C5: a header line of SV-A, PS-F, SS-A or SS-B whose name is not captured
\* aborts the parse of the document, which returns no tables: the scan never
\* goes on past such a line, and no document holding one returns.
C5_NoNameAborts ==
  /\ pc = "scan" => \A k \in 1..(i - 1) : ~NameNotCaptured(f_list[k])
  /\ \A n \in DOMAIN returned : \A k \in 1..Len(filelist[n]) : ~NameNotCaptured(filelist[n][k])

\* C6: in a batch a fatal error in one document aborts that document only:
\* the program never stops on an error with later documents left unparsed.
C6_BatchContinues == pc = AfterRaise => fileno = Len(filelist)

\* every row of rows has as many values as cols has columns
RowsFit(rows, cols) == \A k \in DOMAIN rows : Len(rows[k]) = Len(cols)
AllRowsFit(t) ==
  /\ \A k \in DOMAIN t.sv_a_dict : RowsFit(t.sv_a_dict[k], sv_a_cols[k])
  /\ \A k \in DOMAIN t.pv_a_dict : RowsFit(t.pv_a_dict[k], pv_a_cols[k])
  /\ \A k \in DOMAIN t.beps_dict : RowsFit(t.beps_dict[k], beps_cols[k])
  /\ \A k \in DOMAIN t.lv_d_dict : RowsFit(t.lv_d_dict[k], avg_u_cols)
  /\ \A k \in DOMAIN t.ps_f_dict : RowsFit(t.ps_f_dict[k].rows, component_info_cols)
  /\ \A k \in DOMAIN t.ss_a_dict : RowsFit(t.ss_a_dict[k], ss_a_cols)
  /\ \A k \in DOMAIN t.ss_b_dict : RowsFit(t.ss_b_dict[k], ss_b_cols)

SsbRowOfAbsentSystem(s, line) ==
  /\ ~IsHeaderLine(line)
  /\ Len(line) > 0
  /\ s.current_report = "SS-B"
  /\ line[1].t \in Range(Months)
  /\ s.current_sys \notin DOMAIN s.ss_b_dict
\* the line is an equipment line of PV-A, the line of its values follows, and
\* the current equipment class has no PV-A table
PvaRowOfAbsentClass(s, lines, n) ==
  /\ ~IsHeaderLine(lines[n])
  /\ s.current_report = "PV-A"
  /\ StartsWord(lines[n]) /\ ~HasReportMarker(lines[n]) /\ WideGapMatches(lines[n])
  /\ n < Len(lines)
  /\ s.current_plant_equip \notin DOMAIN s.pv_a_dict

\* C8: a write for an entity the pre-scan did not discover (for PV-A, an
\* equipment class with no table) raises, writes no row and creates no table:
\* the tables of PS-F, SS-A, SS-B and PV-A are those allocated before the scan.
C8_NoTableForUndiscovered ==
  [][(pc = "scan" /\ i <= Len(f_list)) =>
       /\ DOMAIN st'.ps_f_dict = Range(find_in_header(f_list, ps_f_header_pattern, "PS-F"))
       /\ DOMAIN st'.ss_a_dict = Range(find_in_header(f_list, ss_a_header_pattern, "SS-A"))
       /\ DOMAIN st'.ss_b_dict = Range(find_in_header(f_list, ss_a_header_pattern, "SS-A"))
       /\ DOMAIN st'.pv_a_dict = DOMAIN pv_a_cols
       /\ (SsbRowOfAbsentSystem(st, f_list[i]) \/ PvaRowOfAbsentClass(st, f_list, i)) =>
            /\ st'.exc = "KeyError"
            /\ Tables(st') = Tables(st)]_vars
\* a month row of SS-B for a system no SS-A header names has raised
C8_Witness ==
  /\ pc = AfterRaise
  /\ f_list = <<hSSB(<<"AHU", "2">>), ssMonth("JAN", 8)>>
  /\ i = 2
  /\ st.exc = "KeyError"
  /\ DOMAIN st.ss_b_dict = {}

(***************************************************************************)
(* Batches: multi_sim on several files, some of which raise.               *)
(***************************************************************************)
MaxFiles == 2
\* a document every post_process_* accepts
GoodDoc == <<hBEPS, unmet("1"), unmet("2"), unmet("1"), unmet("2"), hLVD, allwalls(6)>>
\* another, with a PS-F section before the rest
GoodPsf == <<hPSF(<<"EM1">>), month("JAN"), kwh(13)>> \o GoodDoc
BatchDocs ==
  {GoodDoc, GoodPsf,
   <<hBEPS, hPSFbad>>,
   <<hSSB(<<"AHU", "2">>), ssMonth("JAN", 8)>>,
   <<hSVAbad, keyword(0, "SYSTEM"), sysrow(11)>>,
   <<hLVD, allwalls(6)>>}
InitBatch == InitWith(SeqsUpTo(BatchDocs, MaxFiles))
SpecBatch == InitBatch /\ [][Next]_vars

(***************************************************************************)
(* BEPS sections with up to MaxUnmet lines, unmet-hours lines among them.  *)
(***************************************************************************)
MaxUnmet == 5
BepsLines == {unmet("1"), unmet("2"), summ, hBEPS, hLVD, blank}
InitBeps == InitWith({<<<<hBEPS>> \o d>> : d \in SeqsUpTo(BepsLines, MaxUnmet)})
SpecBeps == InitBeps /\ [][Next]_vars

\* line k of lines is an unmet-hours line of a BEPS section
IsQualifying(lines, k) ==
  /\ ~IsHeaderLine(lines[k])
  /\ LastHeaderCode(lines, k) = "BEPS"
  /\ Len(lines[k]) >= 1
  /\ lines[k][1].sp = 19
  /\ StartsPH(lines[k][1].t)
\* the last tokens of the unmet-hours lines among lines[1..n], in order
RECURSIVE QualifyingValues(_, _)
QualifyingValues(lines, n) ==
  IF n = 0 THEN <<>>
  ELSE IF IsQualifying(lines, n)
       THEN Append(QualifyingValues(lines, n - 1), lines[n][Len(lines[n])].t)
       ELSE QualifyingValues(lines, n - 1)
UnmetTable == <<"beps_dict", "UNMET INFO">>

MaxPsf == 4
PsfLines == {month("DEC"), month("JAN"), kwh(13), kwhTotal(13), maxkw(13), delim}
InitPsf == InitWith({<<<<hPSF(<<"EM1">>)>> \o d>> : d \in SeqsUpTo(PsfLines, MaxPsf)})
SpecPsf == InitPsf /\ [][Next]_vars

\* a run of '=' characters, indented
IsDelimiter(line) == Len(line) >= 1 /\ line[1].sp >= 1 /\ line[1].t = "======="
\* the total delimiter stands between the last month line or header line
\* before line n and line n
AfterDelimiter(lines, n) ==
  \E k \in 1..(n - 1) :
    /\ IsDelimiter(lines[k])
    /\ \A j \in (k + 1)..(n - 1) : ~IsHeaderLine(lines[j]) /\ ~MonthMatches(lines[j])
\* the line is a measure row of PS-F
IsMeasureRow(line) == Len(line) > 1 /\ SplitRaw(line)[1] \in {"KWH", "MAX KW"}

\* C10: in a PS-F section the measure rows that follow the total delimiter
\* are written under 'TOTAL', in a slot of the month axis allocated with the
\* table: they add no slot and leave the rows of DEC as they are.
C10_TotalSlot ==
  [][(/\ pc = "scan" /\ i <= Len(f_list)
      /\ st.current_report = "PS-F" /\ st.current_month = "DEC"
      /\ IsMeasureRow(f_list[i]) /\ AfterDelimiter(f_list, i)) =>
       LET old == st.ps_f_dict[st.current_meter]
           new == st'.ps_f_dict[st.current_meter]
           key == <<"TOTAL", measure_dict[SplitRaw(f_list[i])[1]]>>
       IN  /\ Len(PsfIndex(new)) = Len(PsfIndex(old))
           /\ \E p \in PsfPositions(new, key) :
                p \in DOMAIN new.rows /\ new.rows[p] = LastN(Split(f_list[i]), 13)
           /\ \A p \in DOMAIN old.rows :
                PsfIndex(old)[p][1] = "DEC" => new.rows[p] = old.rows[p]]_vars

(***************************************************************************)
(* SV-A sections with up to MaxSva lines after the header of a system.     *)
(***************************************************************************)
MaxSva == 3
SvaLines ==
  {keyword(1, "SYSTEM"), keyword(1, "FAN"), keyword(1, "ZONE"), sysrow(11), sysrow(10),
   fanrow(11), fanByUser, fanrow(13), zonerow(11), zonerow(10), hSVA(<<"AHU", "2">>),
   hBEPS}
InitSva == InitWith({<<<<hSVA(<<"SYS1">>)>> \o d>> : d \in SeqsUpTo(SvaLines, MaxSva)})
SpecSva == InitSva /\ [][Next]_vars

\* the ScanLine step at hand scans a row of the FAN sub-section of a named
\* system
IsFanRow ==
  /\ pc = "scan" /\ i <= Len(f_list)
  /\ ~IsHeaderLine(f_list[i])
  /\ st.current_report = "SV-A" /\ st.system_name # None
  /\ st.current_sv_a_section = "FAN"
  /\ StartsTwoBlanksWord(f_list[i])
FanTable(s) == s.sv_a_dict["Fans"]

\* C11 as claimed: the join of the tokens at list positions 9 and 10 is
\* applied only when the row has exactly one value more than the 11 of the
\* schema.
C11_JoinOnlyOnExcessOne ==
  (IsFanRow /\ Len(Split(f_list[i])) - 1 # 12) =>
     FanJoin(Split(f_list[i])) = Split(f_list[i])
\* C11: a FAN row of 12 values is written with the tokens at list positions
\* 9 and 10 joined, so with 11 values; a row of 11 values is written as it
\* is; the join is applied to every row of more than 11 values, and a row
\* of more than 12 is still too long after it, so that its write raises and
\* the fan table is left as it was.
C11_FanJoin ==
  [][IsFanRow =>
       LET l_list == Split(f_list[i])
           vals == From(l_list, 2)
           key == <<st.system_name, l_list[1]>>
       IN  /\ Len(vals) = 11 =>
                Ok(st') /\ key \in DOMAIN FanTable(st') /\ FanTable(st')[key] = vals
           /\ Len(vals) = 12 =>
                /\ Ok(st') /\ key \in DOMAIN FanTable(st')
                /\ FanTable(st')[key] =
                     SubSeq(vals, 1, 8) \o <<vals[9] \o vals[10]>> \o SubSeq(vals, 11, 12)
           /\ Len(vals) > 12 =>
                /\ FanJoin(l_list) # l_list
                /\ st'.exc = "ValueError" /\ FanTable(st') = FanTable(st)]_vars
\* the two-word control strategy has been written as one value
C11_Witness ==
  /\ pc = "scan" /\ i > 1 /\ f_list[i - 1] = fanByUser
  /\ <<"SYS1", "SUPPLY">> \in DOMAIN FanTable(st)
  /\ FanTable(st)[<<"SYS1", "SUPPLY">>] =
       <<"1", "2", "3", "4", "9", "10", "100", "DRAW", "BYUSER", "0.5", "2">>

(***************************************************************************)
(* Documents of several entities: PS-F sections of two meters, with up to  *)
(* MaxEntityLines lines after the first header or the first month, and    *)
(* SS-A and SS-B sections                                                  *)
(* of two systems, with up to MaxEntityLines lines after the two headers.  *)
(***************************************************************************)
MaxEntityLines == 3
MeterLines == {hPSF(<<"FM1">>), month("DEC"), kwh(13), therm(13), peakPct, hBEPS}
MeterDocs ==
  {lead \o d : lead \in {<<hPSF(<<"EM1">>), month("JAN")>>, <<hPSF(<<"EM1">>)>>},
              d \in SeqsUpTo(MeterLines, MaxEntityLines)}
SystemLines ==
  {hSSA(<<"SYS1">>), hSSB(<<"SYS1">>), hSSB(<<"AHU", "2">>), ssMonth("JAN", 14),
   ssMonth("JAN", 8), ssRow("TOTAL", <<"1", "2", "3">>), ssRow("MAX", <<"4", "9", "10">>),
   ssRow("TOTAL", <<"1", "2", "3", "4">>), ssRow("MAX", <<"9", "10", "100", "0.5">>)}
SystemDocs ==
  {<<hSSA(<<"SYS1">>), hSSA(<<"AHU", "2">>)>> \o d :
     d \in SeqsUpTo(SystemLines, MaxEntityLines)}
InitEntities == InitWith({<<d>> : d \in MeterDocs \cup SystemDocs})
SpecEntities == InitEntities /\ [][Next]_vars

\* the ScanLine step at hand scans a 'PEAK ENDUSE' or 'PEAK PCT' line of a
\* PS-F section whose meter has a table and whose month is known
IsPeakLine ==
  /\ pc = "scan" /\ i <= Len(f_list)
  /\ ~IsHeaderLine(f_list[i])
  /\ st.current_report = "PS-F"
  /\ st.current_meter \in DOMAIN st.ps_f_dict /\ st.current_month # Unbound
  /\ Len(f_list[i]) > 1 /\ SplitRaw(f_list[i])[1] \in {"PEAK ENDUSE", "PEAK PCT"}

\* C12: a PS-F 'PEAK ENDUSE' or 'PEAK PCT' line of 12 values is written as
\* a row of 13 values: the 12 values of the line in their order, then one
\* empty placeholder in the column 'Total'.
C12_PeakRowPadded ==
  [][(IsPeakLine /\ Len(Split(f_list[i])) = 14) =>
       LET vals == From(Split(f_list[i]), 3)
           new == st'.ps_f_dict[st.current_meter]
           key == <<st.current_month, measure_dict[SplitRaw(f_list[i])[1]]>>
       IN  /\ Ok(st')
           /\ component_info_cols[13] = "Total"
           /\ \E p \in PsfPositions(new, key) :
                /\ p \in DOMAIN new.rows /\ Len(new.rows[p]) = 13
                /\ SubSeq(new.rows[p], 1, 12) = vals
                /\ new.rows[p][13] = ""]_vars
\* the twelve values of a 'PEAK PCT' line are in the table of January, an
\* empty value after them
C12_Witness ==
  /\ pc = "scan" /\ i > 1 /\ f_list[i - 1] = peakPct
  /\ st.current_month = "JAN"
  /\ \E p \in PsfPositions(st.ps_f_dict["EM1"], <<"JAN", "Peak Pct">>) :
       /\ p \in DOMAIN st.ps_f_dict["EM1"].rows
       /\ st.ps_f_dict["EM1"].rows[p] =
            <<"1", "2", "3", "4", "9", "10", "100", "0.5", "1", "2", "3", "4", "">>

(***************************************************************************)
(* Documents that reach the return of parse_sim: a PV-A section of one     *)
(* class with up to MaxEquip pieces of equipment, then the four unmet-hours *)
(* lines of BEPS and the ALL WALLS row of LV-D.                            *)
(***************************************************************************)
MaxEquip == 2
EquipValues ==
  {pumpVals("100", "5"), pumpVals("0", "5"), pumpVals("100", "ONE-SPEED"),
   primaryVals("HW-BOILER", "1", "0.5"), primaryVals("ELEC-SCREW", "0.5", "1"),
   primaryVals("ELEC-SCREW", "0.5", "ELEC")}
EquipBlocks == {<<equip(e), v>> : e \in {"EQ1", "EQ2"}, v \in EquipValues}
RECURSIVE Flatten(_)
Flatten(ss) == IF ss = <<>> THEN <<>> ELSE Head(ss) \o Flatten(Tail(ss))
ReturnTail == <<hBEPS, unmet("1"), unmet("2"), unmet("3"), unmet("4"), hLVD, allwalls(6)>>
PostDocs ==
  {<<hPVA, class(c)>> \o Flatten(b) \o ReturnTail :
     c \in {<<"PUMPS">>, <<"PRIMARY", "EQUIPMENT">>}, b \in SeqsUpTo(EquipBlocks, MaxEquip)}
InitPost == InitWith({<<d>> : d \in PostDocs})
SpecPost == InitPost /\ [][Next]_vars

\* the PostProcess step at hand returns from parse_sim
Returns == pc = "scan" /\ i > Len(f_list) /\ fileno \in DOMAIN returned'
\* the PV-A tables of the scan the step post-processes, and those it returns
Scanned(k) == st.pv_a_dict[k]
PostPvA(k) == returned'[fileno].pv_a_dict[k]

\* C13: post-processing puts every row of PRIMARY EQUIPMENT in exactly one
\* of the new tables BOILERS (its equipment type contains 'HW') and CHILLERS
\* (every other row) and removes PRIMARY EQUIPMENT; CHILLERS gets the
\* columns COP, kW/ton and GPM/ton, BOILERS the one column Thermal Eff.
C13_BoilersAndChillers ==
  [][Returns =>
       LET primary == Scanned("PRIMARY EQUIPMENT")
           hw == {e \in DOMAIN primary : ContainsHW(primary[e][1])}
           B == PostPvA("BOILERS")
           C == PostPvA("CHILLERS")
       IN  /\ "PRIMARY EQUIPMENT" \notin DOMAIN returned'[fileno].pv_a_dict
           /\ DOMAIN B.rows = hw
           /\ DOMAIN C.rows = DOMAIN primary \ hw
           /\ B.cols = primary_info_cols \o <<"Thermal Eff">>
           /\ C.cols = primary_info_cols \o <<"COP", "kW/ton", "GPM/ton">>
           /\ \A e \in DOMAIN B.rows :
                /\ Len(B.rows[e]) = Len(B.cols)
                /\ SubSeq(B.rows[e], 1, 2) = SubSeq(primary[e], 1, 2)
                /\ B.rows[e][8] = Quot(Whole(1), to_numeric(primary[e][6]))
           /\ \A e \in DOMAIN C.rows :
                /\ Len(C.rows[e]) = Len(C.cols)
                /\ SubSeq(C.rows[e], 1, 2) = SubSeq(primary[e], 1, 2)
                /\ C.rows[e][8] = Quot(Whole(1), to_numeric(primary[e][5]))
                /\ C.rows[e][9] = Quot(Whole(12), Prod(C.rows[e][8], Norm(3412, 1000)))
                /\ C.rows[e][10] =
                     Quot(Prod(to_numeric(primary[e][4]), Whole(12)),
                          Prod(Whole(1000), to_numeric(primary[e][3])))]_vars
\* a boiler and a chiller of one document have been returned, each in its
\* table: the boiler with thermal efficiency 2, the chiller with COP 2,
\* 1500/853 kW/ton and 3/10 GPM/ton
C13_Witness ==
  /\ fileno \in DOMAIN returned
  /\ LET B == returned[fileno].pv_a_dict["BOILERS"].rows
         C == returned[fileno].pv_a_dict["CHILLERS"].rows
     IN  /\ DOMAIN B = {"EQ1"} /\ DOMAIN C = {"EQ2"}
         /\ B["EQ1"][1] = "HW-BOILER" /\ B["EQ1"][8] = Whole(2)
         /\ C["EQ2"][1] = "ELEC-SCREW"
         /\ SubSeq(C["EQ2"], 8, 10) = <<Whole(2), Norm(1500, 853), Norm(3, 10)>>

\* C14: post-processing gives every pump row a column W/GPM whose value is
\* 1000 x Power (kW) / Flow (GPM): a pump of flow 100 and power 5 gets 50.
C14_PumpWattsPerGPM ==
  [][Returns =>
       LET pumps == Scanned("PUMPS")
           P == PostPvA("PUMPS")
       IN  /\ P.cols = pump_info_cols \o <<"W/GPM">>
           /\ DOMAIN P.rows = DOMAIN pumps
           /\ \A e \in DOMAIN pumps :
                LET flow == to_numeric(pumps[e][2])
                    power == to_numeric(pumps[e][6])
                    w == P.rows[e][9]
                IN  /\ Len(P.rows[e]) = 9
                    /\ flow.n # 0 =>
                         w.d # 0 /\ w.n * flow.n * power.d = w.d * 1000 * power.n * flow.d
                    /\ (pumps[e][2] = "100" /\ pumps[e][6] = "5") => w = Whole(50)]_vars
\* a pump of flow 100 and power 5 has been returned with 50 W/GPM
C14_Witness ==
  /\ fileno \in DOMAIN returned
  /\ LET P == returned[fileno].pv_a_dict["PUMPS"].rows
     IN  /\ "EQ1" \in DOMAIN P
         /\ P["EQ1"][2] = Whole(100) /\ P["EQ1"][6] = Whole(5) /\ P["EQ1"][9] = Whole(50)

\* C15 as claimed: a value of a numeric column that does not parse as a
\* number raises no error in post-processing: whenever the scan has ended
\* with the rows 'Unmet' and 'ALL WALLS' in their tables, post-processing
\* completes and parse_sim returns the tables.
C15_NonNumericKept ==
  [][(/\ pc = "scan" /\ i > Len(f_list)
      /\ "Unmet" \in DOMAIN st.beps_dict["UNMET INFO"]
      /\ "ALL WALLS" \in DOMAIN st.lv_d_dict["Avg_U"])
       => (pc' # AfterRaise /\ fileno \in DOMAIN returned')]_vars

\* the ScanLine step at hand scans a line of the SV-A section of a named
\* system that is a row of the sub-section sec
IsSvaRow(sec) ==
  /\ pc = "scan" /\ i <= Len(f_list)
  /\ ~IsHeaderLine(f_list[i])
  /\ st.current_report = "SV-A" /\ st.system_name # None
  /\ st.current_sv_a_section = sec
  /\ f_list[i][1].t \notin {"SYSTEM", "FAN", "ZONE"}
  /\ IF sec = "FAN" THEN StartsTwoBlanksWord(f_list[i]) ELSE StartsWord(f_list[i])
\* the step has ended the scan with a ValueError and reported nothing
Aborts ==
  /\ pc' = AfterRaise /\ st'.exc = "ValueError" /\ i' = i
  /\ st'.printed = st.printed /\ st'.sv_a_dict = st.sv_a_dict

NamesIn(lines, pattern, report) ==
  {HeaderGroup(lines[k], pattern) : k \in CapturedAt(lines, pattern, report)}

\* C17: when the main scan starts and ever after, the tables of PS-F, of
\* SS-A and of SS-B are exactly one per entity name the pre-scan found in
\* the section-header lines of that same report code.
C17_TablesOfOwnHeaders ==
  pc = "scan" =>
    /\ DOMAIN st.ps_f_dict = NamesIn(f_list, ps_f_header_pattern, "PS-F")
    /\ DOMAIN st.ss_a_dict = NamesIn(f_list, ss_a_header_pattern, "SS-A")
    /\ DOMAIN st.ss_b_dict = NamesIn(f_list, ss_b_header_pattern, "SS-B")

\* the frames parse_sim can hold after n lines of the scan of the document
\* lines, parsed alone: from a new frame, the n steps of the scan
RECURSIVE ScanAlone(_, _)
ScanAlone(lines, n) ==
  IF n = 0 THEN {NewFrame(lines)}
  ELSE {ScanStep(s, lines, n, lib) :
          s \in {t \in ScanAlone(lines, n - 1) : Ok(t)}, lib \in BOOLEAN}
\* what parse_sim can return for the document parsed alone
ReturnedAlone(lines) ==
  {s \in ScanAlone(lines, Len(lines)) :
     Ok(s) /\ FirstRaise(PostStages(s)) > Len(PostStages(s))}

OthersUnchanged(dict, e) ==
  /\ DOMAIN st'[dict] = DOMAIN st[dict]
  /\ \A o \in DOMAIN st[dict] : o # e => st'[dict][o] = st[dict][o]

\* C19: every PS-F meter, SS-A system and SS-B system has a table of its
\* own: the scan of a line writes to the tables of the current meter or the
\* current system only, and a THERM line sets the new measure axis on the
\* table of the current meter only.
C19_EntityTablesIndependent ==
  [][(pc = "scan" /\ i <= Len(f_list)) =>
       /\ OthersUnchanged("ps_f_dict", st'.current_meter)
       /\ OthersUnchanged("ss_a_dict", st'.current_sys)
       /\ OthersUnchanged("ss_b_dict", st'.current_sys)
       /\ <<"ps_f_dict", st'.current_meter>> \notin st'.writes =>
            \A m \in DOMAIN st.ps_f_dict : st'.ps_f_dict[m].rows = st.ps_f_dict[m].rows
       /\ <<"ss_a_dict", st'.current_sys>> \notin st'.writes => st'.ss_a_dict = st.ss_a_dict
       /\ <<"ss_b_dict", st'.current_sys>> \notin st'.writes =>
            st'.ss_b_dict = st.ss_b_dict]_vars
\* a THERM line of the meter FM1 has set the new measure axis on the table
\* of FM1 and written its row there; the table of EM1 has the old axis and
\* the row written before
C19_Witness ==
  /\ pc = "scan"
  /\ f_list = <<hPSF(<<"EM1">>), month("JAN"), kwh(13), hPSF(<<"FM1">>), therm(13)>>
  /\ i > Len(f_list)
  /\ st.ps_f_dict["FM1"].meas = new_index_measures
  /\ st.ps_f_dict["EM1"].meas = ps_f_measures
  /\ DOMAIN st.ps_f_dict["EM1"].rows # {} /\ DOMAIN st.ps_f_dict["FM1"].rows # {}

\* the ScanLine step at hand scans a line of the label given in a section
\* of the report given whose system has a table
IsSsLine(report, label) ==
  /\ pc = "scan" /\ i <= Len(f_list)
  /\ ~IsHeaderLine(f_list[i])
  /\ st.current_report = report
  /\ st.current_sys \in DOMAIN st.ss_a_dict
  /\ Len(f_list[i]) >= 1 /\ f_list[i][1].t = label
\* the row of the label in the table of the current system after the step
SsRowAfter(dict, label) == st'[dict][st.current_sys][label]
\* the places of a row that hold a value
Filled(row) == {c \in 1..Len(row) : row[c] # ""}

\* C20 as claimed: the MAX row of SS-A is written with pads of 5, 5 and 0
\* empty placeholders before its first, second and third value.
C20_MaxPads550 ==
  [][(IsSsLine("SS-A", "MAX") /\ Len(f_list[i]) = 4) =>
       LET v == From(Split(f_list[i]), 2)
       IN  /\ Ok(st')
           /\ SsRowAfter("ss_a_dict", "MAX") =
                Empties(5) \o <<v[1]>> \o Empties(5) \o <<v[2]>> \o <<v[3]>>]_vars
\* C20: an SS-A TOTAL line of three values is written as the first value,
\* 5 empty placeholders, the second, 5 placeholders, the third and 1
\* placeholder; an SS-A MAX line with pads of 5, 5 and 1 placeholders
\* before its first, second and third value; both rows have the 14 columns
\* of the table and no column holds a value of both.  In SS-B the four
\* values of TOTAL take the columns 1, 3, 5, 7 and those of MAX the columns
\* 2, 4, 6, 8 of the 8.
C20_TotalAndMaxRows ==
  [][/\ (IsSsLine("SS-A", "TOTAL") /\ Len(f_list[i]) = 4) =>
          LET v == From(Split(f_list[i]), 2)
              row == SsRowAfter("ss_a_dict", "TOTAL")
          IN  /\ Ok(st') /\ Len(row) = 14 /\ Len(ss_a_cols) = 14
              /\ row = <<v[1]>> \o Empties(5) \o <<v[2]>> \o Empties(5) \o <<v[3], "">>
     /\ (IsSsLine("SS-A", "MAX") /\ Len(f_list[i]) = 4) =>
          LET v == From(Split(f_list[i]), 2)
              row == SsRowAfter("ss_a_dict", "MAX")
              table == st'.ss_a_dict[st.current_sys]
          IN  /\ Ok(st') /\ Len(row) = 14
              /\ row = Empties(5) \o <<v[1]>> \o Empties(5) \o <<v[2], "", v[3]>>
              /\ "TOTAL" \in DOMAIN table =>
                   Filled(table["TOTAL"]) \cap Filled(row) = {}
     /\ (IsSsLine("SS-B", "TOTAL") /\ Len(f_list[i]) = 5) =>
          LET v == From(Split(f_list[i]), 2)
              row == SsRowAfter("ss_b_dict", "TOTAL")
          IN  /\ Ok(st') /\ Len(row) = 8 /\ Len(ss_b_cols) = 8
              /\ row = <<v[1], "", v[2], "", v[3], "", v[4], "">>
     /\ (IsSsLine("SS-B", "MAX") /\ Len(f_list[i]) = 5) =>
          LET v == From(Split(f_list[i]), 2)
              row == SsRowAfter("ss_b_dict", "MAX")
          IN  /\ Ok(st') /\ Len(row) = 8
              /\ row = <<"", v[1], "", v[2], "", v[3], "", v[4]>>]_vars
\* the TOTAL and the MAX row of SS-A are both in the table of SYS1, their
\* values in the columns 1, 7, 13 and 6, 12, 14
C20_Witness ==
  /\ pc = "scan" /\ i > 4
  /\ st.current_report = "SS-A" /\ st.current_sys = "SYS1"
  /\ {"TOTAL", "MAX"} \subseteq DOMAIN st.ss_a_dict["SYS1"]
  /\ st.ss_a_dict["SYS1"]["TOTAL"] =
       <<"1", "", "", "", "", "", "2", "", "", "", "", "", "3", "">>
  /\ st.ss_a_dict["SYS1"]["MAX"] =
       <<"", "", "", "", "", "4", "", "", "", "", "", "9", "", "10">>

(***************************************************************************)
(* BEPS sections of meter lines and component lines, up to MaxComp lines.  *)
(***************************************************************************)
MaxComp == 3
CompLines == {meterE, meterG, meterOther, comp(13), compMix, comp(12), hLVD, hBEPS}
InitComp == InitWith({<<<<hBEPS>> \o d>> : d \in SeqsUpTo(CompLines, MaxComp)})
SpecComp == InitComp /\ [][Next]_vars

ComponentTable == <<"beps_dict", "BUILDING COMPONENTS">>
\* line k of lines is scanned by the BEPS handler
InBeps(lines, k) == ~IsHeaderLine(lines[k]) /\ LastHeaderCode(lines, k) = "BEPS"

\* C21: the BEPS handler writes a component row only on a component line
\* scanned while the current energy type is NATURAL-GAS or ELECTRICITY: the
\* row is that type followed by the tokens of the line after the first,
\* under the current meter code, and the type is none right after the
\* write.  So the line that writes is the first component line after the
\* last meter-name line before it: at most one row is written between two
\* meter-name lines and none before the first.
C21_OneComponentPerMeterLine ==
  [][(pc = "scan" /\ i <= Len(f_list)) =>
       /\ ComponentTable \in st'.writes =>
            /\ InBeps(f_list, i) /\ CompMatches(f_list[i])
            /\ st.current_type \in {"NATURAL-GAS", "ELECTRICITY"}
            /\ st'.beps_dict["BUILDING COMPONENTS"][st.meter] =
                 <<st.current_type>> \o From(Split(f_list[i]), 2)
            /\ st'.current_type = None
            /\ \E k \in 1..(i - 1) :
                 /\ InBeps(f_list, k) /\ MeterMatches(f_list[k])
                 /\ \A j \in (k + 1)..(i - 1) :
                      ~(InBeps(f_list, j) /\ CompMatches(f_list[j]))
       /\ (/\ InBeps(f_list, i) /\ CompMatches(f_list[i]) /\ Len(f_list[i]) = 14
           /\ st.current_type \in {"NATURAL-GAS", "ELECTRICITY"}) =>
            ComponentTable \in st'.writes
       /\ ComponentTable \notin st'.writes =>
            st'.beps_dict["BUILDING COMPONENTS"] = st.beps_dict["BUILDING COMPONENTS"]]_vars
\* of two component lines after one meter line the first has been written
\* and the second has not
C21_Witness ==
  /\ pc = "scan"
  /\ f_list = <<hBEPS, meterE, compMix, comp(13)>>
  /\ i > Len(f_list)
  /\ st.current_type = None
  /\ ComponentTable \notin st.writes
  /\ st.beps_dict["BUILDING COMPONENTS"] =
       ("EM1" :> <<"ELECTRICITY", "1", "2", "3", "4", "9", "10", "100", "0.5", "1", "2",
                   "3", "4", "9">>)

(***************************************************************************)
(* LV-D sections of up to MaxSurfaces surface lines.                       *)
(***************************************************************************)
MaxSurfaces == 3
SurfaceLines ==
  {leaf(6), leafMix, leafW(6), leafW(5), allwalls(6), allwallsMix, allwalls(7), hBEPS}
InitLvd == InitWith({<<<<hLVD>> \o d>> : d \in SeqsUpTo(SurfaceLines, MaxSurfaces)})
SpecLvd == InitLvd /\ [][Next]_vars

\* the ScanLine step at hand scans a surface line of an LV-D section
IsSurfaceLine ==
  /\ pc = "scan" /\ i <= Len(f_list)
  /\ ~IsHeaderLine(f_list[i])
  /\ st.current_report = "LV-D"
  /\ SurfaceMatches(f_list[i])
AvgU(s) == s.lv_d_dict["Avg_U"]

\* C22 as claimed: of the tokens after the name 'ALL WALLS' the first is
\* dropped and the others are the values written.
C22_AllWallsDropsFirstValue ==
  [][(IsSurfaceLine /\ SurfaceGroup(f_list[i]) = "ALL WALLS"
        /\ <<"lv_d_dict", "Avg_U">> \in st'.writes) =>
       AvgU(st')["ALL WALLS"] = From(Split(f_list[i]), 4)]_vars
\* C22: for a leaf surface row the values written are every token after the
\* first token of the line, for 'ALL WALLS' every token after the second:
\* the one more token skipped is the second word of the name, and no value
\* is dropped.  Either row is written when it has the 6 values of the
\* schema, and raises otherwise.
C22_AllWallsSkipsItsName ==
  [][IsSurfaceLine =>
       LET l_list == Split(f_list[i])
           name == SurfaceGroup(f_list[i])
           vals == IF name = "ALL WALLS" THEN From(l_list, 3) ELSE From(l_list, 2)
       IN  /\ name = "ALL WALLS" => SubSeq(l_list, 1, 2) = <<"ALL", "WALLS">>
           /\ Len(vals) = 6 =>
                /\ Ok(st') /\ Len(avg_u_cols) = 6
                /\ name \in DOMAIN AvgU(st') /\ AvgU(st')[name] = vals
           /\ Len(vals) \notin {1, 6} =>
                st'.exc = "ValueError" /\ AvgU(st') = AvgU(st)]_vars
\* a leaf row and the aggregate row are in the table, each with the six
\* values of its line
C22_Witness ==
  /\ pc = "scan" /\ i > 3
  /\ f_list = <<hLVD, leafMix, allwallsMix>>
  /\ AvgU(st) = ("NORTH" :> <<"0.5", "1", "2", "3", "4", "9">>
                  @@ "ALL WALLS" :> <<"0.5", "1", "2", "3", "4", "9">>)

(***************************************************************************)
(* PV-A sections of the pumps with up to MaxPva lines.                     *)
(***************************************************************************)
MaxPva == 3
PvaLines ==
  {equip("PUMP1"), equip("EQ1"), pumpVals("100", "5"), pumpFlush, equipVals(7),
   class(<<"PRIMARY", "EQUIPMENT">>), hBEPS, unmet("1")}
InitPva == InitWith({<<<<hPVA, class(<<"PUMPS">>)>> \o d>> : d \in SeqsUpTo(PvaLines, MaxPva)})
SpecPva == InitPva /\ [][Next]_vars

\* the ScanLine step at hand scans a data line of a PV-A section: it starts
\* with a word character, holds no 'REPORT-' and has a field before a gap
\* of two blanks or more
IsPvaDataLine ==
  /\ pc = "scan" /\ i <= Len(f_list)
  /\ ~IsHeaderLine(f_list[i])
  /\ st.current_report = "PV-A"
  /\ StartsWord(f_list[i]) /\ ~HasReportMarker(f_list[i]) /\ WideGapMatches(f_list[i])
\* the document with every line but line n blanked
OnlyLine(lines, n) == [k \in 1..Len(lines) |-> IF k = n THEN lines[n] ELSE <<>>]

\* C23: the row a PV-A data line i writes, keyed by its leading field in
\* the table of the current equipment class, holds the fields of line i+1
\* split on runs of two blanks or more; line i+1 is then scanned as a line
\* of its own; a data line that is the last line of the document raises.
\* Outside PV-A the scan of a line reads no other line of the document.
C23_ValuesOfNextLine ==
  [][/\ IsPvaDataLine =>
          LET cls == st.current_plant_equip
              key == WideGapGroup(f_list[i])
          IN  /\ i = Len(f_list) => st'.exc = "IndexError" /\ st'.pv_a_dict = st.pv_a_dict
              /\ (i < Len(f_list) /\ cls \in DOMAIN st.pv_a_dict) =>
                   LET row == SplitStripped(f_list[i + 1])
                   IN  /\ Len(row) = Len(pv_a_cols[cls]) => Ok(st')
                       /\ Ok(st') =>
                            /\ pc' = "scan" /\ i' = i + 1
                            /\ key \in DOMAIN st'.pv_a_dict[cls]
                            /\ st'.pv_a_dict[cls][key] = LocRow(row, pv_a_cols[cls])
     /\ (pc = "scan" /\ i <= Len(f_list) /\ st'.current_report # "PV-A") =>
          \E lib \in BOOLEAN : st' = ScanStep(st, OnlyLine(f_list, i), i, lib)]_vars
\* a pump row holds the fields of the line after it, and that line, a data
\* line itself, has written a row of the fields of the line after it
C23_Witness ==
  /\ pc = "scan" /\ i > 5
  /\ f_list = <<hPVA, class(<<"PUMPS">>), equip("PUMP1"), pumpFlush, pumpVals("100", "5")>>
  /\ DOMAIN st.pv_a_dict["PUMPS"] = {"PUMP1", "LOOP1"}
  /\ st.pv_a_dict["PUMPS"]["PUMP1"] = SplitStripped(pumpFlush)
  /\ st.pv_a_dict["PUMPS"]["LOOP1"] = SplitStripped(pumpVals("100", "5"))

\* the line is a keyword line of SV-A
IsKeywordLine(line) == Len(line) > 0 /\ line[1].t \in {"SYSTEM", "FAN", "ZONE"}

\* C24: the SV-A sub-section changes only on a line that is no section
\* header, is scanned while SV-A is the current report and has SYSTEM, FAN
\* or ZONE as its first token, to that token; every other line, a header of SV-A or of another report among
\* them, leaves it as it is, so it stays in force in the section of the
\* next system.
C24_SubSectionPersists ==
  [][(pc = "scan" /\ i <= Len(f_list)) =>
       st'.current_sv_a_section =
         IF /\ ~IsHeaderLine(f_list[i]) /\ st.current_report = "SV-A"
            /\ IsKeywordLine(f_list[i])
         THEN f_list[i][1].t
         ELSE st.current_sv_a_section]_vars
\* a fan row of the second system has been written under the sub-section
\* FAN, which a keyword line of the first system's section set
C24_Witness ==
  /\ pc = "scan" /\ i > 4
  /\ f_list = <<hSVA(<<"SYS1">>), keyword(1, "FAN"), hSVA(<<"AHU", "2">>), fanrow(11)>>
  /\ st.current_sv_a_section = "FAN" /\ st.system_name = "AHU 2"
  /\ DOMAIN FanTable(st) = {<<"AHU 2", "SUPPLY">>}

\* line k of lines is scanned by the PS-F handler
InPsf(lines, k) == ~IsHeaderLine(lines[k]) /\ LastHeaderCode(lines, k) = "PS-F"
\* the month of the last month line among lines[1..n] that the PS-F handler
\* scanned, Unbound when there is none
RECURSIVE LastMonth(_, _)
LastMonth(lines, n) ==
  IF n = 0 THEN Unbound
  ELSE IF InPsf(lines, n) /\ MonthMatches(lines[n]) THEN lines[n][1].t
  ELSE LastMonth(lines, n - 1)
\* the measure a PS-F line is a row of, None for the other lines
MeasureOf(line) ==
  LET first == IF Len(line) > 0 THEN SplitRaw(line)[1] ELSE ""
  IN  IF first \in DOMAIN measure_dict THEN measure_dict[first]
      ELSE IF first = "DAY/HR" THEN "Day/Hour"
      ELSE None

\* C25: the PS-F month changes only on a month line scanned while PS-F is
\* the current report, which no header resets: at every line it is the
\* month of the last month line the PS-F handler has scanned, in whatever
\* PS-F section of the document.  A measure row is written under that month
\* in the table of the current meter, and a measure row scanned before any
\* month line ends the scan with an error and is not written.
C25_MonthPersists ==
  [][(pc = "scan" /\ i <= Len(f_list)) =>
       /\ st'.current_month =
            IF InPsf(f_list, i) /\ MonthMatches(f_list[i])
            THEN f_list[i][1].t ELSE st.current_month
       /\ st'.current_month = LastMonth(f_list, i)
       /\ (InPsf(f_list, i) /\ MeasureOf(f_list[i]) # None) =>
            IF LastMonth(f_list, i) = Unbound
            THEN /\ pc' = AfterRaise /\ st'.exc = "UnboundLocalError"
                 /\ \A m \in DOMAIN st.ps_f_dict :
                      st'.ps_f_dict[m].rows = st.ps_f_dict[m].rows
            ELSE <<"ps_f_dict", st.current_meter>> \in st'.writes =>
                   LET df == st'.ps_f_dict[st.current_meter]
                       key == <<LastMonth(f_list, i), MeasureOf(f_list[i])>>
                   IN  \E p \in PsfPositions(df, key) :
                         /\ p \in DOMAIN df.rows
                         /\ df.rows[p] \in {LastN(Split(f_list[i]), 13),
                                            PeakRow(Split(f_list[i]))}]_vars
\* a row of the meter FM1 has been written under the month of the section
\* of the meter EM1
C25_Witness ==
  /\ pc = "scan" /\ i > 4
  /\ f_list = <<hPSF(<<"EM1">>), month("JAN"), hPSF(<<"FM1">>), kwh(13)>>
  /\ st.current_month = "JAN" /\ st.current_meter = "FM1"
  /\ \E p \in PsfPositions(st.ps_f_dict["FM1"], <<"JAN", "KWH">>) :
       p \in DOMAIN st.ps_f_dict["FM1"].rows
  /\ DOMAIN st.ps_f_dict["EM1"].rows = {}

(***************************************************************************)
(* Documents that end the scan: a BEPS section of three or four unmet-hours*)
(* lines and up to MaxTail more lines, alone or after a document that      *)
(* parse_sim returns.                                                      *)
(***************************************************************************)
MaxTail == 3
TailLines == {unmet("2"), hLVD, allwalls(6), leaf(6), hBEPS}
TailDocs ==
  {lead \o d : lead \in {<<hBEPS, unmet("1"), unmet("2"), unmet("1")>>,
                         <<hBEPS, unmet("1"), unmet("2"), unmet("1"), unmet("2")>>},
               d \in SeqsUpTo(TailLines, MaxTail)}
InitTail == InitWith({<<d>> : d \in TailDocs} \cup {<<ReturnTail, d>> : d \in TailDocs})
SpecTail == InitTail /\ [][Next]_vars

\* the unmet-hours lines of a BEPS section among the lines
UnmetLinesOf(lines) == {k \in 1..Len(lines) : InBeps(lines, k) /\ UnmetMatches(lines[k])}
\* the 'ALL WALLS' lines of an LV-D section among the lines
AllWallsLinesOf(lines) ==
  {k \in 1..Len(lines) :
     /\ ~IsHeaderLine(lines[k]) /\ LastHeaderCode(lines, k) = "LV-D"
     /\ SurfaceMatches(lines[k]) /\ SurfaceGroup(lines[k]) = "ALL WALLS"}

\* C26: at the end of the scan parse_sim returns the tables of the document
\* only if the 'Unmet' row of BEPS and the 'ALL WALLS' row of LV-D are
\* committed, which takes 4 unmet-hours lines in a BEPS section and an
\* 'ALL WALLS' line in an LV-D section; with fewer than 4 unmet-hours values
\* collected or with no 'ALL WALLS' row, post-processing raises and nothing
\* is returned for the document.
C26_ReturnNeedsUnmetAndAllWalls ==
  [][(pc = "scan" /\ i > Len(f_list)) =>
       /\ returned' # returned =>
            /\ Len(st.unmet_info) = 4
            /\ "Unmet" \in DOMAIN st.beps_dict["UNMET INFO"]
            /\ st.beps_dict["UNMET INFO"]["Unmet"] = st.unmet_info
            /\ "ALL WALLS" \in DOMAIN AvgU(st)
            /\ Cardinality(UnmetLinesOf(f_list)) >= 4
            /\ AllWallsLinesOf(f_list) # {}
            /\ DOMAIN returned' = DOMAIN returned \cup {fileno}
       /\ (\/ Len(st.unmet_info) < 4
           \/ Cardinality(UnmetLinesOf(f_list)) < 4
           \/ "ALL WALLS" \notin DOMAIN AvgU(st)
           \/ AllWallsLinesOf(f_list) = {}) =>
            /\ pc' = AfterRaise /\ st'.exc = "post"
            /\ returned' = returned]_vars
\* the first document is returned; the second has its 'Unmet' row and no
\* 'ALL WALLS' row, and ends in post-processing with nothing returned for it
C26_Witness ==
  /\ pc = AfterRaise /\ st.exc = "post"
  /\ fileno = 2 /\ i > Len(f_list)
  /\ f_list = <<hBEPS, unmet("1"), unmet("2"), unmet("1"), unmet("2"), hLVD, leaf(6)>>
  /\ "Unmet" \in DOMAIN st.beps_dict["UNMET INFO"]
  /\ "ALL WALLS" \notin DOMAIN AvgU(st)
  /\ DOMAIN returned = {1}
====
